---- MODULE Spec2Model ----
(***************************************************************************)
(* Model of the per-target monitoring engine of the DNS failover server    *)
(* (internal/monitor/engine.go): the registry of monitors, the check loop  *)
(* with its hysteresis state machine and backup watchdog, the schedule     *)
(* loop, ForceRestore, and the callbacks the engine dispatches.            *)
(***************************************************************************)
EXTENDS Integers, Sequences, FiniteSets, TLC

\* ------------------------------------------------------------------ bounds
\* Number of Monitor objects that may be live (registered, or cancelled with
\* a loop or a ForceRestore call still holding the pointer) at one time in
\* the scenarios that exercise replacement.
MaxInst == 2
\* Cap on Monitor.BackupFailCount, which the watchdog lets grow without limit
\* while BackupDown stays true.
MaxBackupFail == 3
\* Saturation value of the observers that count runs of probe outcomes.
RunCap == 5
\* callback goroutines started and not yet run, at most
MaxGo == 2

Inst == 1..MaxInst
NoInst == 0

\* ------------------------------------------------------- status constants
StatusNormal == "Normal"
StatusDown == "Down"

\* --------------------------------------------------------- configurations
\* The fields of config.MonitorConfig that the engine reads.
MonitorConfig(id, ctype, target, orig, backup, fthr, sthr, sen, shours, sip) ==
    [ID |-> id, CheckType |-> ctype, CheckTarget |-> target,
     OriginalIP |-> orig, BackupIP |-> backup,
     FailureThreshold |-> fthr, SuccessThreshold |-> sthr,
     ScheduleEnabled |-> sen, ScheduleHours |-> shours,
     ScheduleSwitchIP |-> sip]

\* The zero value of config.MonitorConfig, held by unallocated slots.
ZeroConfig == MonitorConfig("", "", "", "", "", 0, 0, FALSE, 0, "")

\* ping monitor, thresholds 3/2, schedule toggling primary <-> backup
CfgToggle == MonitorConfig("a", "ping", "", "P", "B", 3, 2, TRUE, 1, "")
\* ping monitor, thresholds 2/1, schedule with an explicit switch-to IP
CfgSwitchIP == MonitorConfig("a", "ping", "t", "P", "B", 2, 1, TRUE, 1, "X")
\* http monitor without thresholds and without backup IP, schedule toggling
CfgBare == MonitorConfig("a", "http", "u", "P", "", 0, 0, TRUE, 1, "")
\* tcp monitor whose backup equals its primary, schedule toggling
CfgSame == MonitorConfig("a", "tcping", "t", "P", "P", 1, 1, TRUE, 1, "")
\* tcp monitor, thresholds 1/1, no schedule
CfgPlain == MonitorConfig("a", "tcping", "t", "P", "B", 1, 1, FALSE, 0, "")
\* second id: http monitor, thresholds 1/1, schedule fields set but disabled
CfgOther == MonitorConfig("b", "http", "u", "Q", "C", 1, 1, FALSE, 1, "")
\* ping monitor whose failure threshold is left unset, no schedule
CfgNoThr == MonitorConfig("a", "ping", "t", "P", "B", 0, 1, FALSE, 0, "")
\* ping monitor with negative thresholds, no schedule
CfgNegThr == MonitorConfig("a", "ping", "t", "P", "B", -1, -1, FALSE, 0, "")
\* check types "tcp", "https" and unset (with no check target), no schedule
CfgTcp == MonitorConfig("a", "tcp", "t", "P", "B", 1, 1, FALSE, 0, "")
CfgHttps == MonitorConfig("a", "https", "u", "P", "B", 1, 1, FALSE, 0, "")
CfgUnset == MonitorConfig("a", "", "", "P", "B", 1, 1, FALSE, 0, "")
\* http monitor, thresholds 1/2, schedule toggling; re-registered while live
CfgReplace == MonitorConfig("a", "http", "u", "P", "B", 1, 2, TRUE, 1, "")

\* A scenario: the configurations one run of the server is administered
\* with, and how many Monitor objects may be live at one time in it.
Scenario(cfgs, slots) == [cfgs |-> cfgs, slots |-> slots]

\* Monitors are independent objects, so the configurations with the large
\* state machines are run one object at a time and replacement (an old
\* object lingering beside its successor) is run on the small ones.
Pools == {Scenario({CfgToggle}, 1),
          Scenario({CfgSwitchIP, CfgBare}, 1),
          Scenario({CfgSame}, 1),
          Scenario({CfgNoThr, CfgNegThr}, 1),
          Scenario({CfgTcp, CfgHttps, CfgUnset}, 1),
          Scenario({CfgPlain, CfgOther}, MaxInst),
          Scenario({CfgReplace}, 2)}

Ids == {"a", "b"}

\* --------------------------------------------------------------- callbacks
\* main binds all three callback fields before the first StartMonitor.
OnSwitchBound == TRUE
OnScheduledSwitchBound == TRUE
OnIPDownBound == TRUE

SwitchEvt(i, toBackup) ==
    [cb |-> "OnSwitch", m |-> i, toBackup |-> toBackup,
     ip |-> "", role |-> "", fromIP |-> "", toIP |-> ""]
IPDownEvt(i, ip, role) ==
    [cb |-> "OnIPDown", m |-> i, toBackup |-> FALSE,
     ip |-> ip, role |-> role, fromIP |-> "", toIP |-> ""]
SchedEvt(i, from, to) ==
    [cb |-> "OnScheduledSwitch", m |-> i, toBackup |-> FALSE,
     ip |-> "", role |-> "", fromIP |-> from, toIP |-> to]

\* ------------------------------------------------------------------- state
VARIABLES
    pool,       \* the scenario: configurations available to the administrators
    Monitors,   \* Engine.Monitors: id -> Monitor pointer (NoInst = absent)
    cancels,    \* Engine.cancels: id -> the Monitor whose context it cancels
    alloc,      \* which Monitor slots hold a live object
    mon,        \* the Monitor objects
    ctxDone,    \* per Monitor: its context has been cancelled
    runPc,      \* per Monitor: position of the check loop goroutine
    bk,         \* per Monitor: locals of checkBackupHealth (wasDown, failCount)
    schedPc,    \* per Monitor: position of the schedule loop goroutine
    frM,        \* ForceRestore in progress: the Monitor it looked up
    ret,        \* what ForceRestore returned, if the last step was its return
    emitted,    \* callbacks dispatched (go ...) by the last step, in order
    last,       \* the last step taken
    obs,        \* observers: runs of probe outcomes seen by each check loop
    emu,        \* Engine.mu: "free", "write" (StartMonitor inside), "read",
                \* "readW" (read-held while a writer waits in Lock)
    stCfg,      \* StartMonitor in progress: its cfg argument
    rootDone,   \* the root context of main has been cancelled
    gs,         \* GetStatus in progress: ids still to visit, entries so far
    track,      \* whether the goroutines started for callbacks are followed
    goq,        \* callback goroutines started and not yet run, oldest first
    hung,       \* ids of monitors with a callback that never returns
    dns,        \* per id: the IP its DNS records were last set to ("" = never)
    ran         \* the callback the last step ran and its place in goq

\* What only the statement-level view of the registry operations moves.
fineVars == <<emu, stCfg, rootDone, gs>>

vars == <<pool, Monitors, cancels, alloc, mon, ctxDone, runPc, bk, schedPc,
          frM, ret, emitted, last, obs, emu, stCfg, rootDone, gs,
          track, goq, hung, dns, ran>>

\* GetStatus not running.
NoStatus == [pc |-> "idle", todo |-> {}, res |-> <<>>]

\* Variant: the new Monitor starts on the backup IP.
NewMonitorOnBackup(cfg) ==
    [Config |-> cfg, Status |-> StatusNormal, CurrentIP |-> cfg.BackupIP,
     FailCount |-> 0, SuccCount |-> 0,
     BackupFailCount |-> 0, BackupDown |-> FALSE]

\* The Monitor object StartMonitor constructs.
NewMonitor(cfg) ==
    [Config |-> cfg, Status |-> StatusNormal, CurrentIP |-> cfg.OriginalIP,
     FailCount |-> 0, SuccCount |-> 0,
     BackupFailCount |-> 0, BackupDown |-> FALSE]

ZeroMonitor ==
    [Config |-> ZeroConfig, Status |-> "", CurrentIP |-> "",
     FailCount |-> 0, SuccCount |-> 0,
     BackupFailCount |-> 0, BackupDown |-> FALSE]

ZeroBk == [wasDown |-> FALSE, failCount |-> 0]
\* Observers of one Monitor object.  failRun, cleanRun, succRun: runs of
\* primary probe results; alerted: an OnIPDown(backup) was dispatched and no
\* backup probe has succeeded since; bkFailRun, periodAlert: failing backup
\* probes in a row, and whether OnIPDown(backup) was dispatched, within the
\* current failover period; pending: the watchdog of the last tick has not
\* run yet.  For a monitor the watchdog can watch (ping, with a backup IP):
\* handled, cycle: between a tick's state update and its watchdog's read, the
\* status that update left and whether it was a "failover", a "restore" or
\* left the status the "same", and overridden: ForceRestore took the Monitor
\* between the two; skipped: the watchdog of the last tick, a failover,
\* returned without probing.
ZeroObs == [failRun |-> 0, cleanRun |-> 0, succRun |-> 0,
            alerted |-> FALSE, bkFailRun |-> 0, periodAlert |-> FALSE,
            pending |-> FALSE, handled |-> "", cycle |-> "",
            overridden |-> FALSE, skipped |-> FALSE]
NoRet == [fromIP |-> "", ok |-> FALSE]
\* The step just taken; probe: the primary probe a check tick ran.
Step(op, i, id, success) ==
    [op |-> op, m |-> i, id |-> id, success |-> success, probe |-> ""]

Sat(n) == IF n >= RunCap THEN RunCap ELSE n + 1

\* ------------------------------------------------------------ goroutines
\* No callback ran in the last step.
NoEvt ==
    [cb |-> "", m |-> NoInst, toBackup |-> FALSE,
     ip |-> "", role |-> "", fromIP |-> "", toIP |-> ""]
NoRan == [pos |-> 0, evt |-> NoEvt]

\* go f(...): the new goroutines join those waiting to run.
spawn(q, calls) == IF track THEN q \o calls ELSE q

\* A step that starts the goroutines for calls.
Go(calls) ==
    /\ track => Len(goq) + Len(calls) <= MaxGo
    /\ goq' = spawn(goq, calls)
    /\ ran' = NoRan
    /\ UNCHANGED <<track, hung, dns>>

\* A step that starts no goroutine.
NoGo ==
    /\ ran' = NoRan
    /\ UNCHANGED <<track, goq, hung, dns>>

\* Variant: the callbacks are called in place, so their caller is stuck
\* behind one that never returns.
blockedByHung(h, id) == id \in h

\* The callbacks are started with go: no step of the engine waits for one.
blockedBy(h, id) == FALSE

\* Variant: the watchdog keeps m.mu from its read to its write, across the
\* backup probe.
probeLockedAcross(pc) == pc = "backupProbe"

\* Engine.check / checkBackupHealth: does the check goroutine at pc hold m.mu
\* while a probe runs?  check probes before handleSuccess / handleFailure
\* lock, and checkBackupHealth unlocks before it pings.
probeLocked(pc) == FALSE

\* NewEngine: empty registry.
Init ==
    /\ pool \in Pools
    /\ Monitors = [id \in Ids |-> NoInst]
    /\ cancels = [id \in Ids |-> NoInst]
    /\ alloc = [i \in Inst |-> FALSE]
    /\ mon = [i \in Inst |-> ZeroMonitor]
    /\ ctxDone = [i \in Inst |-> FALSE]
    /\ runPc = [i \in Inst |-> "none"]
    /\ bk = [i \in Inst |-> ZeroBk]
    /\ schedPc = [i \in Inst |-> "none"]
    /\ frM = NoInst
    /\ ret = NoRet
    /\ emitted = <<>>
    /\ last = Step("init", NoInst, "", FALSE)
    /\ obs = [i \in Inst |-> ZeroObs]
    /\ emu = "free"
    /\ stCfg = ZeroConfig
    /\ rootDone = FALSE
    /\ gs = NoStatus
    /\ track = FALSE
    /\ goq = <<>>
    /\ hung = {}
    /\ dns = [id \in Ids |-> ""]
    /\ ran = NoRan

\* ------------------------------------------------------------ check loop
\* Variant: the tag "tcp" selects the TCP connect probe too.
CheckKindTcp(cfg) ==
    CASE cfg.CheckType \in {"http", "https"} -> "http"
      [] cfg.CheckType \in {"tcping", "tcp"} -> "tcp"
      [] OTHER -> "ping"

\* Engine.check: which probe the configured check type selects.
CheckKind(cfg) ==
    CASE cfg.CheckType \in {"http", "https"} -> "http"
      [] cfg.CheckType = "tcping" -> "tcp"
      [] OTHER -> "ping"

\* The results the selected probe can return for this configuration:
\* checkHTTP and checkTCP fail without probing when CheckTarget is empty.
ProbeResults(cfg) ==
    IF CheckKind(cfg) \in {"http", "tcp"} /\ cfg.CheckTarget = ""
    THEN {FALSE}
    ELSE BOOLEAN

\* Variant: the threshold comparison is strict (> for >=).
FailoverDueStrict(m) ==
    /\ m.Status = StatusNormal
    /\ m.FailCount + 1 > m.Config.FailureThreshold

\* Variant: a non-positive threshold is replaced by 3, as the watchdog does.
FailoverDueDefaulted(m) ==
    /\ m.Status = StatusNormal
    /\ m.FailCount + 1 >= (IF m.Config.FailureThreshold <= 0 THEN 3
                           ELSE m.Config.FailureThreshold)

\* Engine.handleFailure: does this failing probe cross the threshold?
FailoverDue(m) ==
    /\ m.Status = StatusNormal
    /\ m.FailCount + 1 >= m.Config.FailureThreshold

\* Variant: the failover leaves FailCount at the value that crossed the
\* threshold.
handleFailureKeepsCount(m) ==
    IF m.Status = StatusNormal
    THEN IF FailoverDue(m)
         THEN [m EXCEPT !.Status = StatusDown,
                        !.CurrentIP = m.Config.BackupIP,
                        !.FailCount = m.FailCount + 1]
         ELSE [m EXCEPT !.FailCount = m.FailCount + 1]
    ELSE [m EXCEPT !.SuccCount = 0]

\* Variant: a failure observed while Down is counted too.
handleFailureCountsDown(m) ==
    IF m.Status = StatusNormal
    THEN IF FailoverDue(m)
         THEN [m EXCEPT !.Status = StatusDown,
                        !.CurrentIP = m.Config.BackupIP,
                        !.FailCount = 0]
         ELSE [m EXCEPT !.FailCount = m.FailCount + 1]
    ELSE [m EXCEPT !.FailCount = m.FailCount + 1, !.SuccCount = 0]

\* Engine.handleFailure, the Monitor it leaves.
handleFailure(m) ==
    IF m.Status = StatusNormal
    THEN IF FailoverDue(m)
         THEN [m EXCEPT !.Status = StatusDown,
                        !.CurrentIP = m.Config.BackupIP,
                        !.FailCount = 0]
         ELSE [m EXCEPT !.FailCount = m.FailCount + 1]
    ELSE [m EXCEPT !.SuccCount = 0]

\* Variant: the failover does not report the primary as down.
handleFailureCallsNoDown(i, m) ==
    IF FailoverDue(m) /\ OnSwitchBound THEN <<SwitchEvt(i, TRUE)>> ELSE <<>>

\* Engine.handleFailure, the goroutines it starts.
handleFailureCalls(i, m) ==
    IF FailoverDue(m)
    THEN (IF OnIPDownBound
          THEN <<IPDownEvt(i, m.Config.OriginalIP, "original")>> ELSE <<>>)
         \o (IF OnSwitchBound THEN <<SwitchEvt(i, TRUE)>> ELSE <<>>)
    ELSE <<>>

\* Variant: the threshold comparison is strict (> for >=).
RestoreDueStrict(m) ==
    /\ m.Status = StatusDown
    /\ m.SuccCount + 1 > m.Config.SuccessThreshold

\* Engine.handleSuccess: does this successful probe cross the threshold?
RestoreDue(m) ==
    /\ m.Status = StatusDown
    /\ m.SuccCount + 1 >= m.Config.SuccessThreshold

\* Variant: a success observed while Normal leaves FailCount alone.
handleSuccessKeepsFail(m) ==
    IF m.Status = StatusDown
    THEN IF RestoreDue(m)
         THEN [m EXCEPT !.Status = StatusNormal,
                        !.CurrentIP = m.Config.OriginalIP,
                        !.SuccCount = 0]
         ELSE [m EXCEPT !.SuccCount = m.SuccCount + 1]
    ELSE m

\* Engine.handleSuccess, the Monitor it leaves.
handleSuccess(m) ==
    IF m.Status = StatusDown
    THEN IF RestoreDue(m)
         THEN [m EXCEPT !.Status = StatusNormal,
                        !.CurrentIP = m.Config.OriginalIP,
                        !.SuccCount = 0]
         ELSE [m EXCEPT !.SuccCount = m.SuccCount + 1]
    ELSE [m EXCEPT !.FailCount = 0]

\* Engine.handleSuccess, the goroutines it starts.
handleSuccessCalls(i, m) ==
    IF RestoreDue(m) /\ OnSwitchBound THEN <<SwitchEvt(i, FALSE)>> ELSE <<>>

\* Engine.checkBackupHealth: the part of the condition that is fixed by the
\* configuration (ping monitor with a backup IP).
CanWatch(cfg) == cfg.CheckType = "ping" /\ cfg.BackupIP # ""

\* Observers of the check loop after one primary probe: lengths of the
\* current runs of probe results; a change of status starts or ends a
\* failover period; the watchdog of this tick is still to run.
ObsAfterProbe(o, m, mNew, success) ==
    LET moved == mNew.Status # m.Status
    IN [o EXCEPT
          !.failRun = IF ~success /\ m.Status = StatusNormal
                      THEN Sat(o.failRun) ELSE 0,
          !.cleanRun = IF ~success /\ m.Status = StatusNormal
                       THEN Sat(o.cleanRun) ELSE 0,
          !.succRun = IF success /\ m.Status = StatusDown
                      THEN Sat(o.succRun) ELSE 0,
          !.bkFailRun = IF moved THEN 0 ELSE o.bkFailRun,
          !.periodAlert = IF moved THEN FALSE ELSE o.periodAlert,
          !.pending = TRUE,
          !.handled = IF CanWatch(m.Config) THEN mNew.Status ELSE "",
          !.cycle = IF ~CanWatch(m.Config) THEN ""
                    ELSE IF ~moved THEN "same"
                    ELSE IF mNew.Status = StatusDown THEN "failover"
                    ELSE "restore",
          !.overridden = FALSE,
          !.skipped = FALSE]

\* Variant: check returns to the loop without running the watchdog itself.
afterHandleReturns(m) == "wait"

\* Engine.check: after the state update the same goroutine calls
\* checkBackupHealth(m) before it returns to the loop.
afterHandle(m) == "backupRead"

\* Engine.run, case <-ticker.C, up to the return of handleSuccess /
\* handleFailure: one probe and its effect on the state machine.
Tick(i, success) ==
    /\ alloc[i]
    /\ runPc[i] = "wait"
    /\ ~blockedBy(hung, mon[i].Config.ID)
    /\ success \in ProbeResults(mon[i].Config)
    /\ mon' = [mon EXCEPT ![i] = IF success THEN handleSuccess(mon[i])
                                 ELSE handleFailure(mon[i])]
    /\ emitted' = IF success THEN handleSuccessCalls(i, mon[i])
                  ELSE handleFailureCalls(i, mon[i])
    /\ Go(emitted')
    /\ obs' = [obs EXCEPT ![i] =
                   ObsAfterProbe(obs[i], mon[i], mon'[i], success)]
    /\ runPc' = [runPc EXCEPT ![i] = afterHandle(mon[i])]
    /\ last' = [Step("Tick", i, mon[i].Config.ID, success)
                   EXCEPT !.probe = CheckKind(mon[i].Config)]
    /\ UNCHANGED <<emu, stCfg, rootDone, gs, pool, Monitors, cancels, alloc,
                   ctxDone, bk, schedPc, frM>>
    /\ ret' = NoRet

\* Observers of the watchdog after its read of the status.
ObsAfterRead(o, m, active) ==
    [o EXCEPT !.pending = active,
              !.handled = "",
              !.cycle = "",
              !.overridden = FALSE,
              !.skipped = /\ o.cycle = "failover"
                          /\ CanWatch(m.Config)
                          /\ ~active]

\* Variant: the watchdog does not look at the status.
shouldCheckAnyStatus(m) ==
    /\ m.Config.CheckType = "ping"
    /\ m.Config.BackupIP # ""

\* Engine.checkBackupHealth: the condition read under the read lock.
shouldCheck(m) ==
    /\ m.Status = StatusDown
    /\ m.Config.CheckType = "ping"
    /\ m.Config.BackupIP # ""

\* Engine.checkBackupHealth, first part: snapshot under m.mu.RLock and the
\* early return when the watchdog is not active.
BackupRead(i) ==
    /\ alloc[i]
    /\ runPc[i] = "backupRead"
    /\ ~blockedBy(hung, mon[i].Config.ID)
    /\ IF shouldCheck(mon[i])
       THEN /\ bk' = [bk EXCEPT ![i] = [wasDown |-> mon[i].BackupDown,
                                        failCount |-> mon[i].BackupFailCount]]
            /\ runPc' = [runPc EXCEPT ![i] = "backupProbe"]
            /\ obs' = [obs EXCEPT
                         ![i] = ObsAfterRead(obs[i], mon[i], TRUE)]
       ELSE /\ bk' = [bk EXCEPT ![i] = ZeroBk]
            /\ runPc' = [runPc EXCEPT ![i] = "wait"]
            /\ obs' = [obs EXCEPT
                         ![i] = ObsAfterRead(obs[i], mon[i], FALSE)]
    /\ emitted' = <<>>
    /\ NoGo
    /\ last' = Step("BackupRead", i, mon[i].Config.ID, FALSE)
    /\ UNCHANGED <<emu, stCfg, rootDone, gs, pool, Monitors, cancels, alloc,
                   mon, ctxDone, schedPc, frM>>
    /\ ret' = NoRet

\* Variant: the configured threshold is used as it is.
BackupThresholdNoDefault(cfg) == cfg.FailureThreshold

\* Engine.checkBackupHealth: the threshold after defaulting.
BackupThreshold(cfg) ==
    IF cfg.FailureThreshold <= 0 THEN 3 ELSE cfg.FailureThreshold

\* Variant: the alert is raised again while the backup is already known down.
BackupTriggerRepeats(m, b) ==
    b.failCount + 1 >= BackupThreshold(m.Config)

\* Engine.checkBackupHealth: trigger := failCount >= failureThreshold && !wasDown
BackupTrigger(m, b) ==
    /\ b.failCount + 1 >= BackupThreshold(m.Config)
    /\ ~b.wasDown

\* Engine.checkBackupHealth, the Monitor it leaves for a probe outcome.
backupWrite(m, b, outcome) ==
    CASE outcome = "setupErr" -> m
      [] outcome = "ok" -> [m EXCEPT !.BackupFailCount = 0,
                                     !.BackupDown = FALSE]
      [] OTHER -> IF BackupTrigger(m, b)
                  THEN [m EXCEPT !.BackupDown = TRUE, !.BackupFailCount = 0]
                  ELSE [m EXCEPT !.BackupFailCount = b.failCount + 1]

\* Engine.checkBackupHealth, the goroutine it starts.
backupCalls(i, m, b, outcome) ==
    IF outcome = "fail" /\ BackupTrigger(m, b) /\ OnIPDownBound
    THEN <<IPDownEvt(i, m.Config.BackupIP, "backup")>>
    ELSE <<>>

BackupOutcomes == {"setupErr", "fail", "ok"}

\* Observers of the watchdog after one backup probe.
ObsAfterBackup(o, calls, outcome) ==
    [o EXCEPT
       !.alerted = IF outcome = "ok" THEN FALSE
                   ELSE IF calls # <<>> THEN TRUE ELSE o.alerted,
       !.bkFailRun = IF outcome = "fail" THEN Sat(o.bkFailRun) ELSE 0,
       !.periodAlert = o.periodAlert \/ calls # <<>>,
       !.pending = FALSE]

\* Engine.checkBackupHealth, second part: the backup probe and the write
\* under m.mu.Lock; check returns and the loop waits for the next tick.
BackupProbe(i, outcome) ==
    /\ alloc[i]
    /\ runPc[i] = "backupProbe"
    /\ ~blockedBy(hung, mon[i].Config.ID)
    /\ outcome \in BackupOutcomes
    /\ outcome = "fail" => bk[i].failCount < MaxBackupFail
    /\ mon' = [mon EXCEPT ![i] = backupWrite(mon[i], bk[i], outcome)]
    /\ emitted' = backupCalls(i, mon[i], bk[i], outcome)
    /\ Go(emitted')
    /\ bk' = [bk EXCEPT ![i] = ZeroBk]
    /\ runPc' = [runPc EXCEPT ![i] = "wait"]
    /\ obs' = [obs EXCEPT ![i] =
                   ObsAfterBackup(obs[i], emitted', outcome)]
    /\ last' = Step("BackupProbe", i, mon[i].Config.ID, outcome = "ok")
    /\ UNCHANGED <<emu, stCfg, rootDone, gs, pool, Monitors, cancels, alloc,
                   ctxDone, schedPc, frM>>
    /\ ret' = NoRet

\* Variant: the select has no case for the context.
doneReadyNever(done, i) == FALSE

\* select, case <-ctx.Done(): ready once the context is cancelled.
doneReady(done, i) == done[i]

\* Engine.run, case <-ctx.Done(): the check loop returns.
RunExit(i) ==
    /\ alloc[i]
    /\ runPc[i] = "wait"
    /\ doneReady(ctxDone, i)
    /\ runPc' = [runPc EXCEPT ![i] = "done"]
    /\ emitted' = <<>>
    /\ NoGo
    /\ last' = Step("RunExit", i, mon[i].Config.ID, FALSE)
    /\ UNCHANGED <<emu, stCfg, rootDone, gs, pool, Monitors, cancels, alloc,
                   mon, ctxDone, bk, schedPc, frM, obs>>
    /\ ret' = NoRet

\* --------------------------------------------------------- schedule loop
\* Variant: without an explicit switch-to IP the target is always the backup.
schedTargetAlwaysBackup(m) ==
    IF m.Config.ScheduleSwitchIP # "" THEN m.Config.ScheduleSwitchIP
    ELSE m.Config.BackupIP

\* Engine.scheduledSwitch: the computed target IP.
schedTarget(m) ==
    IF m.Config.ScheduleSwitchIP # "" THEN m.Config.ScheduleSwitchIP
    ELSE IF m.CurrentIP = m.Config.OriginalIP THEN m.Config.BackupIP
    ELSE m.Config.OriginalIP

\* Variant: the fire is not suppressed while the failover is active.
schedActsWhileDown(m) ==
    /\ schedTarget(m) # ""
    /\ schedTarget(m) # m.CurrentIP

\* Engine.scheduledSwitch: the fire goes past both early returns.
schedActs(m) ==
    /\ m.Status # StatusDown
    /\ schedTarget(m) # ""
    /\ schedTarget(m) # m.CurrentIP

\* Variant: the switch leaves the counters alone.
scheduledSwitchKeepsCounts(m) ==
    IF schedActs(m)
    THEN [m EXCEPT !.CurrentIP = schedTarget(m)]
    ELSE m

\* Engine.scheduledSwitch, the Monitor it leaves.
scheduledSwitch(m) ==
    IF schedActs(m)
    THEN [m EXCEPT !.CurrentIP = schedTarget(m),
                   !.FailCount = 0,
                   !.SuccCount = 0]
    ELSE m

\* Engine.scheduledSwitch, the goroutine it starts.
scheduledSwitchCalls(i, m) ==
    IF schedActs(m) /\ OnScheduledSwitchBound
    THEN <<SchedEvt(i, m.CurrentIP, schedTarget(m))>>
    ELSE <<>>

\* Engine.runSchedule, case <-ticker.C: one call of scheduledSwitch.
ScheduleFire(i) ==
    /\ alloc[i]
    /\ schedPc[i] = "wait"
    /\ ~blockedBy(hung, mon[i].Config.ID)
    /\ ~probeLocked(runPc[i])
    /\ mon' = [mon EXCEPT ![i] = scheduledSwitch(mon[i])]
    /\ emitted' = scheduledSwitchCalls(i, mon[i])
    /\ Go(emitted')
    /\ obs' = [obs EXCEPT ![i].cleanRun =
                   IF schedActs(mon[i]) THEN 0 ELSE obs[i].cleanRun]
    /\ last' = Step("ScheduleFire", i, mon[i].Config.ID, FALSE)
    /\ UNCHANGED <<emu, stCfg, rootDone, gs, pool, Monitors, cancels, alloc,
                   ctxDone, runPc, bk, schedPc, frM>>
    /\ ret' = NoRet

\* Engine.runSchedule, case <-ctx.Done(): the schedule loop returns.
SchedExit(i) ==
    /\ alloc[i]
    /\ schedPc[i] = "wait"
    /\ doneReady(ctxDone, i)
    /\ schedPc' = [schedPc EXCEPT ![i] = "done"]
    /\ emitted' = <<>>
    /\ NoGo
    /\ last' = Step("SchedExit", i, mon[i].Config.ID, FALSE)
    /\ UNCHANGED <<emu, stCfg, rootDone, gs, pool, Monitors, cancels, alloc,
                   mon, ctxDone, runPc, bk, frM, obs>>
    /\ ret' = NoRet

\* ---------------------------------------------------------------- registry
FreeSlots == {i \in 1..pool.slots : ~alloc[i]}
NewSlot == CHOOSE i \in FreeSlots : \A j \in FreeSlots : i <= j

\* StartMonitor / runSchedule: is the schedule loop started and kept?
schedRuns(cfg) == cfg.ScheduleEnabled /\ cfg.ScheduleHours > 0

\* sync.RWMutex: RLock succeeds unless a writer holds the lock or waits
\* for it.
\* Variant: the reader does not take the lock.
RLockIgnored(l) == TRUE

RLockFree(l) == l \notin {"write", "readW"}

\* sync.RWMutex: Lock succeeds when nobody holds the lock.
LockFree(l) == l = "free"

\* Variant: cancelling one context cancels every context.
cancelCtxAll(done, i) == [j \in Inst |-> TRUE]

\* cancel(): the context of Monitor i is done.
cancelCtx(done, i) == [done EXCEPT ![i] = TRUE]

\* StartMonitor: if cancel, ok := e.cancels[cfg.ID]; ok { cancel() }
cancelOld(done, old) == IF old # NoInst THEN cancelCtx(done, old) ELSE done

\* Variant: the new Monitor is not entered in the map.
setMonitorSkipped(map, id, i) == map

\* StartMonitor: e.Monitors[cfg.ID] = m
setMonitor(map, id, i) == [map EXCEPT ![id] = i]

\* Engine.StartMonitor, the whole call: it holds e.mu from entry to return.
StartMonitor(cfg) ==
    /\ cfg \in pool.cfgs
    /\ FreeSlots # {}
    /\ LockFree(emu)
    /\ LET i == NewSlot
           old == cancels[cfg.ID]
       IN /\ ctxDone' = [cancelOld(ctxDone, old) EXCEPT ![i] = rootDone]
          /\ cancels' = [cancels EXCEPT ![cfg.ID] = i]
          /\ Monitors' = setMonitor(Monitors, cfg.ID, i)
          /\ alloc' = [alloc EXCEPT ![i] = TRUE]
          /\ mon' = [mon EXCEPT ![i] = NewMonitor(cfg)]
          /\ runPc' = [runPc EXCEPT ![i] = "wait"]
          /\ schedPc' = [schedPc EXCEPT ![i] =
                            IF schedRuns(cfg) THEN "wait" ELSE "none"]
          /\ bk' = [bk EXCEPT ![i] = ZeroBk]
          /\ obs' = [obs EXCEPT ![i] = ZeroObs]
          /\ last' = Step("StartMonitor", i, cfg.ID, FALSE)
    /\ emitted' = <<>>
    /\ NoGo
    /\ UNCHANGED <<emu, stCfg, rootDone, gs, pool, frM>>
    /\ ret' = NoRet

\* Variant: the entry stays in the map.
deleteKeyKeeps(map, id) == map

\* Variant: the map is emptied.
deleteKeyAll(map, id) == [o \in Ids |-> NoInst]

\* delete(map, id) on a registry map.
deleteKey(map, id) == [map EXCEPT ![id] = NoInst]

\* Engine.StopMonitor.
StopMonitor(id) ==
    /\ id \in Ids
    /\ LockFree(emu)
    /\ IF cancels[id] # NoInst
       THEN /\ ctxDone' = cancelCtx(ctxDone, cancels[id])
            /\ cancels' = deleteKey(cancels, id)
            /\ Monitors' = deleteKey(Monitors, id)
       ELSE UNCHANGED <<ctxDone, cancels, Monitors>>
    /\ emitted' = <<>>
    /\ NoGo
    /\ last' = Step("StopMonitor", cancels[id], id, FALSE)
    /\ UNCHANGED <<emu, stCfg, rootDone, gs, pool, alloc, mon, runPc, bk,
                   schedPc, frM, obs>>
    /\ ret' = NoRet

\* Engine.ForceRestore, first part: the lookup under e.mu.RLock and the
\* return for an unknown id.
ForceRestoreLookup(id) ==
    /\ id \in Ids
    /\ frM = NoInst
    /\ RLockFree(emu)
    /\ IF Monitors[id] = NoInst
       THEN /\ ret' = [fromIP |-> "", ok |-> FALSE]
            /\ frM' = NoInst
            /\ last' = Step("ForceRestoreMiss", NoInst, id, FALSE)
       ELSE /\ frM' = Monitors[id]
            /\ ret' = NoRet
            /\ last' = Step("ForceRestoreLookup", Monitors[id], id, FALSE)
    /\ emitted' = <<>>
    /\ NoGo
    /\ UNCHANGED <<emu, stCfg, rootDone, gs, pool, Monitors, cancels, alloc,
                   mon, ctxDone, runPc, bk, schedPc, obs>>

\* Variant: the event carries what ForceRestore returned.
restoreFromIPAsReturned(r, cfg) == r.fromIP

\* Handler.RestoreMonitor: the from-IP of the restore event, from what
\* ForceRestore returned and the stored configuration of the id.
restoreFromIP(r, cfg) == IF r.fromIP = "" THEN cfg.BackupIP ELSE r.fromIP

\* Variant: the override leaves SuccCount alone.
forceRestoreKeepsSucc(m) ==
    [m EXCEPT !.Status = StatusNormal,
              !.CurrentIP = m.Config.OriginalIP,
              !.FailCount = 0]

\* Variant: the override leaves CurrentIP alone.
forceRestoreKeepsIP(m) ==
    [m EXCEPT !.Status = StatusNormal,
              !.FailCount = 0,
              !.SuccCount = 0]

\* Engine.ForceRestore, the Monitor it leaves.
forceRestore(m) ==
    [m EXCEPT !.Status = StatusNormal,
              !.CurrentIP = m.Config.OriginalIP,
              !.FailCount = 0,
              !.SuccCount = 0]

\* Variant: the override fires the restore callback when it ends a failover.
forceRestoreCallsSwitch(i, m) ==
    IF m.Status = StatusDown THEN <<SwitchEvt(i, FALSE)>> ELSE <<>>

\* Engine.ForceRestore, the goroutines it starts: none.
forceRestoreCalls(i, m) == <<>>

\* Engine.ForceRestore, second part: the reset under m.mu.Lock and the return.
ForceRestoreApply ==
    /\ frM # NoInst
    /\ ~blockedBy(hung, mon[frM].Config.ID)
    /\ ~probeLocked(runPc[frM])
    /\ mon' = [mon EXCEPT ![frM] = forceRestore(mon[frM])]
    /\ ret' = [fromIP |-> mon[frM].CurrentIP, ok |-> TRUE]
    /\ frM' = NoInst
    /\ obs' = [obs EXCEPT ![frM] = [ZeroObs EXCEPT
                                       !.alerted = obs[frM].alerted,
                                       !.pending = obs[frM].pending,
                                       !.handled = obs[frM].handled,
                                       !.cycle = obs[frM].cycle,
                                       !.overridden =
                                           obs[frM].cycle # ""]]
    /\ emitted' = forceRestoreCalls(frM, mon[frM])
    /\ Go(emitted')
    /\ last' = Step("ForceRestore", frM, mon[frM].Config.ID, FALSE)
    /\ UNCHANGED <<emu, stCfg, rootDone, gs, pool, Monitors, cancels, alloc,
                   ctxDone, runPc, bk, schedPc>>

\* A Monitor that is out of the registry, whose loops have returned and that
\* no ForceRestore call holds is unreachable; its slot becomes free.
Reclaim(i) ==
    /\ alloc[i]
    /\ \A id \in Ids : Monitors[id] # i
    /\ runPc[i] = "done"
    /\ schedPc[i] \in {"done", "none"}
    /\ frM # i
    /\ \A k \in 1..Len(goq) : goq[k].m # i
    /\ alloc' = [alloc EXCEPT ![i] = FALSE]
    /\ mon' = [mon EXCEPT ![i] = ZeroMonitor]
    /\ ctxDone' = [ctxDone EXCEPT ![i] = FALSE]
    /\ runPc' = [runPc EXCEPT ![i] = "none"]
    /\ schedPc' = [schedPc EXCEPT ![i] = "none"]
    /\ bk' = [bk EXCEPT ![i] = ZeroBk]
    /\ obs' = [obs EXCEPT ![i] = ZeroObs]
    /\ emitted' = <<>>
    /\ NoGo
    /\ last' = Step("Reclaim", i, "", FALSE)
    /\ UNCHANGED <<emu, stCfg, rootDone, gs, pool, Monitors, cancels, frM>>
    /\ ret' = NoRet

Next ==
    \/ \E cfg \in pool.cfgs : StartMonitor(cfg)
    \/ \E id \in Ids : StopMonitor(id)
    \/ \E id \in Ids : ForceRestoreLookup(id)
    \/ ForceRestoreApply
    \/ \E i \in Inst : \E success \in BOOLEAN : Tick(i, success)
    \/ \E i \in Inst : BackupRead(i)
    \/ \E i \in Inst : \E outcome \in BackupOutcomes : BackupProbe(i, outcome)
    \/ \E i \in Inst : RunExit(i)
    \/ \E i \in Inst : ScheduleFire(i)
    \/ \E i \in Inst : SchedExit(i)
    \/ \E i \in Inst : Reclaim(i)

Spec == Init /\ [][Next]_vars

\* ------------------------------------------- registry, statement by statement
\* The scenarios the statement-level view is run on: two ids on two slots
\* (replacement and removal beside a second monitor), and one ping monitor
\* with a schedule.
PoolsFine == {Scenario({CfgPlain, CfgOther}, 2),
              Scenario({CfgSwitchIP}, 1)}

InitFine ==
    /\ pool \in PoolsFine
    /\ Monitors = [id \in Ids |-> NoInst]
    /\ cancels = [id \in Ids |-> NoInst]
    /\ alloc = [i \in Inst |-> FALSE]
    /\ mon = [i \in Inst |-> ZeroMonitor]
    /\ ctxDone = [i \in Inst |-> FALSE]
    /\ runPc = [i \in Inst |-> "none"]
    /\ bk = [i \in Inst |-> ZeroBk]
    /\ schedPc = [i \in Inst |-> "none"]
    /\ frM = NoInst
    /\ ret = NoRet
    /\ emitted = <<>>
    /\ last = Step("init", NoInst, "", FALSE)
    /\ obs = [i \in Inst |-> ZeroObs]
    /\ emu = "free"
    /\ stCfg = ZeroConfig
    /\ rootDone = FALSE
    /\ gs = NoStatus
    /\ track = FALSE
    /\ goq = <<>>
    /\ hung = {}
    /\ dns = [id \in Ids |-> ""]
    /\ ran = NoRan

\* Engine.StartMonitor, first part: e.mu.Lock, the cancel of the instance
\* registered under cfg.ID, the new context and e.cancels[cfg.ID] = cancel.
StartBegin(cfg) ==
    /\ cfg \in pool.cfgs
    /\ FreeSlots # {}
    /\ LockFree(emu)
    /\ LET i == NewSlot
           old == cancels[cfg.ID]
       IN /\ ctxDone' = [cancelOld(ctxDone, old) EXCEPT ![i] = rootDone]
          /\ cancels' = [cancels EXCEPT ![cfg.ID] = i]
          /\ alloc' = [alloc EXCEPT ![i] = TRUE]
          /\ last' = Step("StartBegin", i, cfg.ID, FALSE)
    /\ emu' = "write"
    /\ stCfg' = cfg
    /\ emitted' = <<>>
    /\ NoGo
    /\ ret' = NoRet
    /\ UNCHANGED <<pool, Monitors, mon, runPc, bk, schedPc, frM, obs,
                   rootDone, gs>>

\* Engine.StartMonitor, second part: the Monitor literal, e.Monitors[cfg.ID]
\* = m, the two go statements and the deferred e.mu.Unlock.
StartFinish ==
    /\ emu = "write"
    /\ LET cfg == stCfg
           i == cancels[cfg.ID]
       IN /\ Monitors' = setMonitor(Monitors, cfg.ID, i)
          /\ mon' = [mon EXCEPT ![i] = NewMonitor(cfg)]
          /\ runPc' = [runPc EXCEPT ![i] = "wait"]
          /\ schedPc' = [schedPc EXCEPT ![i] =
                            IF schedRuns(cfg) THEN "wait" ELSE "none"]
          /\ bk' = [bk EXCEPT ![i] = ZeroBk]
          /\ obs' = [obs EXCEPT ![i] = ZeroObs]
          /\ last' = Step("StartFinish", i, cfg.ID, FALSE)
    /\ emu' = "free"
    /\ stCfg' = ZeroConfig
    /\ emitted' = <<>>
    /\ NoGo
    /\ ret' = NoRet
    /\ UNCHANGED <<pool, cancels, alloc, ctxDone, frM, rootDone, gs>>

\* Variant: the entry reports the failure counter as succ_count too.
statusEntryOneCounter(m) ==
    [id |-> m.Config.ID, status |-> m.Status, current_ip |-> m.CurrentIP,
     fail_count |-> m.FailCount, succ_count |-> m.FailCount,
     check_type |-> m.Config.CheckType]

\* Engine.GetStatus: the map appended for one Monitor, read under
\* m.mu.RLock (the name is not part of MonitorConfig here).
statusEntry(m) ==
    [id |-> m.Config.ID, status |-> m.Status, current_ip |-> m.CurrentIP,
     fail_count |-> m.FailCount, succ_count |-> m.SuccCount,
     check_type |-> m.Config.CheckType]

\* Engine.GetStatus: e.mu.RLock and the empty result.
GetStatusBegin ==
    /\ gs.pc = "idle"
    /\ LockFree(emu)
    /\ emu' = "read"
    /\ gs' = [pc |-> "reading",
              todo |-> {id \in Ids : Monitors[id] # NoInst},
              res |-> <<>>]
    /\ emitted' = <<>>
    /\ NoGo
    /\ ret' = NoRet
    /\ last' = Step("GetStatusBegin", NoInst, "", FALSE)
    /\ UNCHANGED <<pool, Monitors, cancels, alloc, mon, ctxDone, runPc, bk,
                   schedPc, frM, obs, stCfg, rootDone>>

\* Variant: the visit of a Monitor takes e.mu.RLock again.
visitRLocksAgain(l) == RLockFree(l)

\* Engine.GetStatus: the visit of a Monitor takes m.mu.RLock only; e.mu is
\* read-held since the begin of the call and not requested again.
visitLockFree(l) == TRUE

\* Engine.GetStatus: one iteration of the range over e.Monitors.
GetStatusRead(id) ==
    /\ gs.pc = "reading"
    /\ visitLockFree(emu)
    /\ id \in gs.todo
    /\ ~blockedBy(hung, id)
    /\ ~probeLocked(runPc[Monitors[id]])
    /\ gs' = [gs EXCEPT !.todo = @ \ {id},
                        !.res = Append(@, statusEntry(mon[Monitors[id]]))]
    /\ emitted' = <<>>
    /\ NoGo
    /\ ret' = NoRet
    /\ last' = Step("GetStatusRead", Monitors[id], id, FALSE)
    /\ UNCHANGED <<pool, Monitors, cancels, alloc, mon, ctxDone, runPc, bk,
                   schedPc, frM, obs, emu, stCfg, rootDone>>

\* Engine.GetStatus: the return and the deferred e.mu.RUnlock.
GetStatusEnd ==
    /\ gs.pc = "reading"
    /\ gs.todo = {}
    /\ gs' = NoStatus
    /\ emu' = "free"
    /\ emitted' = <<>>
    /\ NoGo
    /\ ret' = NoRet
    /\ last' = Step("GetStatusEnd", NoInst, "", FALSE)
    /\ UNCHANGED <<pool, Monitors, cancels, alloc, mon, ctxDone, runPc, bk,
                   schedPc, frM, obs, stCfg, rootDone>>

\* main: the deferred cancel of the root context; every context derived
\* from it is done.
RootCancel ==
    /\ ~rootDone
    /\ rootDone' = TRUE
    /\ ctxDone' = [i \in Inst |-> alloc[i] \/ ctxDone[i]]
    /\ emitted' = <<>>
    /\ NoGo
    /\ ret' = NoRet
    /\ last' = Step("RootCancel", NoInst, "", FALSE)
    /\ UNCHANGED <<pool, Monitors, cancels, alloc, mon, runPc, bk, schedPc,
                   frM, obs, emu, stCfg, gs>>

NextFine ==
    \/ \E cfg \in pool.cfgs : StartBegin(cfg)
    \/ StartFinish
    \/ \E id \in Ids : StopMonitor(id)
    \/ \E id \in Ids : ForceRestoreLookup(id)
    \/ ForceRestoreApply
    \/ GetStatusBegin
    \/ \E id \in Ids : GetStatusRead(id)
    \/ GetStatusEnd
    \/ RootCancel
    \/ \E i \in Inst : \E success \in BOOLEAN : Tick(i, success)
    \/ \E i \in Inst : BackupRead(i)
    \/ \E i \in Inst : \E outcome \in BackupOutcomes : BackupProbe(i, outcome)
    \/ \E i \in Inst : RunExit(i)
    \/ \E i \in Inst : ScheduleFire(i)
    \/ \E i \in Inst : SchedExit(i)
    \/ \E i \in Inst : Reclaim(i)

SpecFine == InitFine /\ [][NextFine]_vars

\* --------------------------------------------------------- waiting writer
\* Engine.StartMonitor / StopMonitor: a caller blocks in e.mu.Lock while
\* GetStatus holds the read lock; from then on sync.RWMutex lets no new
\* reader in until the writer has had the lock.
WriterWaits ==
    /\ emu = "read"
    /\ emu' = "readW"
    /\ emitted' = <<>>
    /\ NoGo
    /\ ret' = NoRet
    /\ last' = Step("WriterWaits", NoInst, "", FALSE)
    /\ UNCHANGED <<pool, Monitors, cancels, alloc, mon, ctxDone, runPc, bk,
                   schedPc, frM, obs, stCfg, rootDone, gs>>

NextLock ==
    \/ NextFine
    \/ WriterWaits

SpecLock == InitFine /\ [][NextLock]_vars

\* ------------------------------------------------------------- scheduling
\* The scenarios the loops' termination is run on: one ping monitor with a
\* schedule, and one monitor re-registered while its predecessor lingers.
PoolsLive == {Scenario({CfgSwitchIP}, 1),
              Scenario({CfgPlain}, 2)}

InitLive ==
    /\ pool \in PoolsLive
    /\ Monitors = [id \in Ids |-> NoInst]
    /\ cancels = [id \in Ids |-> NoInst]
    /\ alloc = [i \in Inst |-> FALSE]
    /\ mon = [i \in Inst |-> ZeroMonitor]
    /\ ctxDone = [i \in Inst |-> FALSE]
    /\ runPc = [i \in Inst |-> "none"]
    /\ bk = [i \in Inst |-> ZeroBk]
    /\ schedPc = [i \in Inst |-> "none"]
    /\ frM = NoInst
    /\ ret = NoRet
    /\ emitted = <<>>
    /\ last = Step("init", NoInst, "", FALSE)
    /\ obs = [i \in Inst |-> ZeroObs]
    /\ emu = "free"
    /\ stCfg = ZeroConfig
    /\ rootDone = FALSE
    /\ gs = NoStatus
    /\ track = FALSE
    /\ goq = <<>>
    /\ hung = {}
    /\ dns = [id \in Ids |-> ""]
    /\ ran = NoRan

\* A goroutine that can take a step takes one (StartMonitor returns, check
\* runs on to its return); a select whose ctx.Done() case is ready again and
\* again takes it, because Go picks among the ready cases at random.
Fairness ==
    /\ WF_vars(StartFinish)
    /\ \A i \in Inst :
          /\ WF_vars(BackupRead(i))
          /\ WF_vars(\E outcome \in BackupOutcomes : BackupProbe(i, outcome))
          /\ SF_vars(RunExit(i))
          /\ SF_vars(SchedExit(i))

SpecLive == InitLive /\ [][NextFine]_vars /\ Fairness

\* --------------------------------------------------- callback goroutines
\* The scenarios the callback goroutines are followed in, thresholds 1/1:
\* one ping monitor with a backup, and one http monitor with a schedule.
CfgNotify == MonitorConfig("a", "ping", "t", "P", "B", 1, 1, FALSE, 0, "")
CfgNotifySched == MonitorConfig("a", "http", "u", "P", "B", 1, 1, TRUE, 1, "")

PoolsGo == {Scenario({CfgNotify}, 1),
           Scenario({CfgNotifySched}, 1)}

InitGo ==
    /\ pool \in PoolsGo
    /\ Monitors = [id \in Ids |-> NoInst]
    /\ cancels = [id \in Ids |-> NoInst]
    /\ alloc = [i \in Inst |-> FALSE]
    /\ mon = [i \in Inst |-> ZeroMonitor]
    /\ ctxDone = [i \in Inst |-> FALSE]
    /\ runPc = [i \in Inst |-> "none"]
    /\ bk = [i \in Inst |-> ZeroBk]
    /\ schedPc = [i \in Inst |-> "none"]
    /\ frM = NoInst
    /\ ret = NoRet
    /\ emitted = <<>>
    /\ last = Step("init", NoInst, "", FALSE)
    /\ obs = [i \in Inst |-> ZeroObs]
    /\ emu = "free"
    /\ stCfg = ZeroConfig
    /\ rootDone = FALSE
    /\ gs = NoStatus
    /\ track = TRUE
    /\ goq = <<>>
    /\ hung = {}
    /\ dns = [id \in Ids |-> ""]
    /\ ran = NoRan

\* Variant: the goroutines run in the order they were started.
runnableInOrder(q, k) == k = 1 /\ Len(q) >= 1

\* The Go scheduler may run any goroutine that was started.
runnable(q, k) == k \in 1..Len(q)

\* What a callback may come to: its DNS and notification calls succeed,
\* fail (the error is logged), or it never returns.
CbOutcomes == {"ok", "err", "hang"}

\* main, the callbacks bound to the engine: the IP they set the monitor's
\* DNS records to (one subdomain, zone id set); OnIPDown sets none.
cbTarget(e, cfg) ==
    CASE e.cb = "OnSwitch" ->
             IF e.toBackup THEN cfg.BackupIP ELSE cfg.OriginalIP
      [] e.cb = "OnScheduledSwitch" -> e.toIP
      [] OTHER -> ""

\* Variant: a callback whose DNS update failed puts the monitor back on
\* its primary IP.
cbMonitorRollsBack(m, outcome) ==
    IF outcome = "err"
    THEN [m EXCEPT !.Status = StatusNormal, !.CurrentIP = m.Config.OriginalIP]
    ELSE m

\* main, the callbacks bound to the engine: they read m.Config and write
\* nothing of the Monitor, whatever comes of them.
cbMonitor(m, outcome) == m

\* One callback goroutine runs: OnSwitch, OnScheduledSwitch or OnIPDown as
\* bound in main.
GoRun(k, outcome) ==
    /\ track
    /\ runnable(goq, k)
    /\ outcome \in CbOutcomes
    /\ LET e == goq[k]
           cfg == mon[e.m].Config
       IN /\ goq' = SubSeq(goq, 1, k - 1) \o SubSeq(goq, k + 1, Len(goq))
          /\ hung' = IF outcome = "hang" THEN hung \cup {cfg.ID} ELSE hung
          /\ dns' = IF outcome = "ok" /\ cbTarget(e, cfg) # ""
                    THEN [dns EXCEPT ![cfg.ID] = cbTarget(e, cfg)]
                    ELSE dns
          /\ mon' = [mon EXCEPT ![e.m] = cbMonitor(mon[e.m], outcome)]
          /\ ran' = [pos |-> k, evt |-> e]
          /\ last' = Step("GoRun", e.m, cfg.ID, outcome = "ok")
    /\ emitted' = <<>>
    /\ ret' = NoRet
    /\ UNCHANGED <<pool, Monitors, cancels, alloc, ctxDone, runPc, bk,
                   schedPc, frM, obs, emu, stCfg, rootDone, gs, track>>

NextGo ==
    \/ \E cfg \in pool.cfgs : StartMonitor(cfg)
    \/ \E id \in Ids : StopMonitor(id)
    \/ \E id \in Ids : ForceRestoreLookup(id)
    \/ ForceRestoreApply
    \/ GetStatusBegin
    \/ \E id \in Ids : GetStatusRead(id)
    \/ GetStatusEnd
    \/ \E i \in Inst : \E success \in BOOLEAN : Tick(i, success)
    \/ \E i \in Inst : BackupRead(i)
    \/ \E i \in Inst : \E outcome \in BackupOutcomes : BackupProbe(i, outcome)
    \/ \E i \in Inst : RunExit(i)
    \/ \E i \in Inst : ScheduleFire(i)
    \/ \E i \in Inst : SchedExit(i)
    \/ \E i \in Inst : Reclaim(i)
    \/ \E k \in 1..MaxGo : \E outcome \in CbOutcomes : GoRun(k, outcome)

SpecGo == InitGo /\ [][NextGo]_vars

TypeOK ==
    /\ pool \in Pools \cup PoolsFine \cup PoolsLive \cup PoolsGo
    /\ Monitors \in [Ids -> Inst \cup {NoInst}]
    /\ \A i \in Inst : mon[i].FailCount >= 0 /\ mon[i].SuccCount >= 0

\* ======================================================================
\* Properties
\* ======================================================================
Max1(n) == IF n < 1 THEN 1 ELSE n

\* The step just taken was the check loop's probe-and-handle on Monitor i.
TickedOn(i) == last'.op = "Tick" /\ last'.m = i
FailedOn(i) == TickedOn(i) /\ ~last'.success
SucceededOn(i) == TickedOn(i) /\ last'.success

WentDown(i) ==
    alloc[i] /\ mon[i].Status = StatusNormal /\ mon'[i].Status = StatusDown
WentNormal(i) ==
    alloc[i] /\ mon[i].Status = StatusDown /\ mon'[i].Status = StatusNormal

CountEvt(s, e) == Cardinality({k \in 1..Len(s) : s[k] = e})
CountCb(s, i, cb) ==
    Cardinality({k \in 1..Len(s) : s[k].m = i /\ s[k].cb = cb})
CountDown(s, i, role) ==
    Cardinality({k \in 1..Len(s) :
                    s[k].m = i /\ s[k].cb = "OnIPDown" /\ s[k].role = role})

\* ---------------------------------------------------------------- C1
\* C1 as stated: a monitor goes Normal -> Down only on a failing probe that
\* completes a run of exactly failureThreshold consecutive failing probes
\* observed while Normal, and a successful probe observed while Normal
\* resets failCount to 0.
C1_AsStated ==
    [][\A i \in Inst :
          /\ WentDown(i) =>
                /\ FailedOn(i)
                /\ obs'[i].failRun = mon[i].Config.FailureThreshold
          /\ (SucceededOn(i) /\ mon[i].Status = StatusNormal) =>
                mon'[i].FailCount = 0]_vars

\* C1 amended: a monitor goes Normal -> Down only on a failing probe observed
\* while Normal that completes a run of max(1, failureThreshold) failing
\* probes counted since failCount was last reset (by a successful probe, an
\* effective scheduled switch, ForceRestore or the start of the monitor), the
\* run of consecutive failing probes being at least failureThreshold long;
\* a successful probe observed while Normal resets failCount to 0.
C1_FailoverOnlyAfterRun ==
    [][\A i \in Inst :
          /\ WentDown(i) =>
                /\ FailedOn(i)
                /\ obs'[i].cleanRun = Max1(mon[i].Config.FailureThreshold)
                /\ obs'[i].failRun >= mon[i].Config.FailureThreshold
          /\ (SucceededOn(i) /\ mon[i].Status = StatusNormal) =>
                mon'[i].FailCount = 0]_vars

\* C1 witness: a failover fired on the third failure after a success.
C1_Witness ==
    \E i \in Inst :
        /\ last.op = "Tick" /\ last.m = i /\ ~last.success
        /\ mon[i].Status = StatusDown
        /\ mon[i].Config.FailureThreshold = 3
        /\ obs[i].cleanRun = 3
        /\ Len(emitted) = 2

\* ---------------------------------------------------------------- C2
\* C2 as stated: the check loop takes a monitor Down -> Normal only on a
\* successful probe that completes a run of exactly successThreshold
\* consecutive successful probes observed while Down, and a failing probe
\* observed while Down resets succCount to 0.
C2_AsStated ==
    [][\A i \in Inst :
          /\ (TickedOn(i) /\ WentNormal(i)) =>
                /\ last'.success
                /\ obs'[i].succRun = mon[i].Config.SuccessThreshold
          /\ (FailedOn(i) /\ mon[i].Status = StatusDown) =>
                mon'[i].SuccCount = 0]_vars

\* C2 amended: the check loop takes a monitor Down -> Normal only on a
\* successful probe that completes a run of exactly max(1, successThreshold)
\* consecutive successful probes observed while Down (a threshold below 1
\* restores on the first success); a failing probe observed while Down
\* resets succCount to 0.
C2_RestoreOnlyAfterRun ==
    [][\A i \in Inst :
          /\ (TickedOn(i) /\ WentNormal(i)) =>
                /\ last'.success
                /\ obs'[i].succRun = Max1(mon[i].Config.SuccessThreshold)
          /\ (FailedOn(i) /\ mon[i].Status = StatusDown) =>
                mon'[i].SuccCount = 0]_vars

\* C2 witness: a restore fired on the second consecutive success.
C2_Witness ==
    \E i \in Inst :
        /\ last.op = "Tick" /\ last.m = i /\ last.success
        /\ mon[i].Status = StatusNormal
        /\ mon[i].Config.SuccessThreshold = 2
        /\ obs[i].succRun = 2
        /\ emitted = <<SwitchEvt(i, FALSE)>>

\* ---------------------------------------------------------------- C3
\* What the tick that completes the failover leaves behind.
FailedOver(i) ==
    /\ mon[i].Status = StatusDown
    /\ mon[i].CurrentIP = mon[i].Config.BackupIP
    /\ CountEvt(emitted, IPDownEvt(i, mon[i].Config.OriginalIP, "original")) = 1
    /\ CountEvt(emitted, SwitchEvt(i, TRUE)) = 1

\* C3 as stated: after failureThreshold consecutive failing probes observed
\* from Normal, with no successful probe and no ForceRestore / StartMonitor /
\* StopMonitor in between, the monitor is Down on the backup IP and both
\* events have been dispatched, whether or not the schedule timer fired
\* between the ticks.
C3_AsStated ==
    \A i \in Inst :
        (/\ last.op = "Tick" /\ last.m = i /\ ~last.success
         /\ mon[i].Config.FailureThreshold >= 1
         /\ obs[i].failRun = mon[i].Config.FailureThreshold)
        => FailedOver(i)

\* C3 amended: after failureThreshold consecutive failing probes observed
\* from Normal, with no successful probe, no ForceRestore / StartMonitor /
\* StopMonitor and no scheduled switch that changed currentIP in between,
\* the monitor is Down on the backup IP and the endpoint-down(original) and
\* failover(toBackup) events have been dispatched; a scheduled switch that
\* changes currentIP resets failCount and restarts the count.
C3_FailoverAfterThreshold ==
    \A i \in Inst :
        (/\ last.op = "Tick" /\ last.m = i /\ ~last.success
         /\ mon[i].Config.FailureThreshold >= 1
         /\ obs[i].cleanRun = mon[i].Config.FailureThreshold)
        => FailedOver(i)

\* C3 witness: the threshold was reached although the schedule timer fired
\* (as a no-op or before the run) and the failover happened.
C3_Witness ==
    \E i \in Inst :
        /\ last.op = "Tick" /\ last.m = i /\ ~last.success
        /\ mon[i].Config.FailureThreshold = 2
        /\ obs[i].cleanRun = 2
        /\ obs[i].failRun = 3
        /\ FailedOver(i)

\* ---------------------------------------------------------------- C4
\* C4: immediately after a health-driven transition both counters are 0 and
\* currentIP is the backup IP (Normal -> Down) or the primary IP
\* (Down -> Normal).
C4_CleanAfterTransition ==
    [][\A i \in Inst :
          /\ (TickedOn(i) /\ WentDown(i)) =>
                /\ mon'[i].FailCount = 0
                /\ mon'[i].SuccCount = 0
                /\ mon'[i].CurrentIP = mon[i].Config.BackupIP
          /\ (TickedOn(i) /\ WentNormal(i)) =>
                /\ mon'[i].SuccCount = 0
                /\ mon'[i].FailCount = 0
                /\ mon'[i].CurrentIP = mon[i].Config.OriginalIP]_vars

\* C4 witness: a failover after three counted failures, counter back at 0.
C4_Witness ==
    \E i \in Inst :
        /\ last.op = "Tick" /\ last.m = i /\ ~last.success
        /\ mon[i].Status = StatusDown
        /\ mon[i].CurrentIP = "B"
        /\ obs[i].cleanRun = 3
        /\ mon[i].FailCount = 0

\* ---------------------------------------------------------------- C5
\* C5: a check-loop Normal -> Down dispatches exactly one OnSwitch(true) and
\* one OnIPDown(primary, "original"); a check-loop Down -> Normal dispatches
\* exactly one OnSwitch(false) and no OnIPDown; a check-loop step without a
\* status transition dispatches neither OnSwitch nor OnIPDown(original).
C5_CallbacksPerTransition ==
    [][\A i \in Inst :
          LET e == emitted'
              checkStep == /\ last'.m = i
                           /\ last'.op \in {"Tick", "BackupRead", "BackupProbe"}
          IN /\ (TickedOn(i) /\ WentDown(i)) =>
                   /\ CountCb(e, i, "OnSwitch") = 1
                   /\ CountEvt(e, SwitchEvt(i, TRUE)) = 1
                   /\ CountCb(e, i, "OnIPDown") = 1
                   /\ CountEvt(e, IPDownEvt(i, mon[i].Config.OriginalIP,
                                            "original")) = 1
             /\ (TickedOn(i) /\ WentNormal(i)) =>
                   /\ CountCb(e, i, "OnSwitch") = 1
                   /\ CountEvt(e, SwitchEvt(i, FALSE)) = 1
                   /\ CountCb(e, i, "OnIPDown") = 0
             /\ (checkStep /\ mon'[i].Status = mon[i].Status) =>
                   /\ CountCb(e, i, "OnSwitch") = 0
                   /\ CountDown(e, i, "original") = 0]_vars

\* C5 witness: the restore of the example (thresholds 3 and 2) dispatched its
\* single OnSwitch(false).
C5_Witness ==
    \E i \in Inst :
        /\ last.op = "Tick" /\ last.m = i /\ last.success
        /\ mon[i].Config.FailureThreshold = 3
        /\ mon[i].Config.SuccessThreshold = 2
        /\ mon[i].Status = StatusNormal
        /\ emitted = <<SwitchEvt(i, FALSE)>>
        /\ obs[i].succRun = 2

\* ---------------------------------------------------------------- C6
\* C6: ForceRestore on a registered id leaves the registry as it was and the
\* monitor it looked up Normal on the primary IP with failCount = succCount
\* = 0, and returns ok = true with the currentIP held just before the reset.
C6_ForceRestoreResets ==
    [][last'.op = "ForceRestore" =>
          LET i == last'.m
          IN /\ i = frM
             /\ mon'[i].Status = StatusNormal
             /\ mon'[i].CurrentIP = mon[i].Config.OriginalIP
             /\ mon'[i].FailCount = 0
             /\ mon'[i].SuccCount = 0
             /\ mon'[i].Config = mon[i].Config
             /\ ret' = [fromIP |-> mon[i].CurrentIP, ok |-> TRUE]
             /\ Monitors' = Monitors
             /\ cancels' = cancels
             /\ (Monitors[last'.id] = i => Monitors'[last'.id] = i)]_vars

\* C6 witness: ForceRestore returned from a failover that had already counted
\* a success: it reports the backup IP and the monitor is back on the primary.
C6_Witness ==
    \E i \in Inst :
        /\ last.op = "ForceRestore" /\ last.m = i
        /\ Monitors[last.id] = i
        /\ ret = [fromIP |-> "B", ok |-> TRUE]
        /\ mon[i].Status = StatusNormal
        /\ mon[i].CurrentIP = "P"
        /\ mon[i].Config.SuccessThreshold = 2
        /\ mon[i].BackupDown

\* ---------------------------------------------------------------- C7
\* C7: no step of ForceRestore dispatches a callback, also when it takes the
\* monitor from Down to Normal.
C7_ForceRestoreSilent ==
    [][last'.op \in {"ForceRestore", "ForceRestoreLookup", "ForceRestoreMiss"}
          => emitted' = <<>>]_vars

\* C7 witness: ForceRestore has just ended a failover.
C7_Witness ==
    \E i \in Inst :
        /\ last.op = "ForceRestore" /\ last.m = i
        /\ ret = [fromIP |-> "B", ok |-> TRUE]
        /\ mon[i].Config.OriginalIP = "P"
        /\ mon[i].Status = StatusNormal
        /\ emitted = <<>>

\* ---------------------------------------------------------------- C8
\* The target IP of a schedule fire as the design describes it.
ExpectedTarget(m) ==
    IF m.Config.ScheduleSwitchIP # "" THEN m.Config.ScheduleSwitchIP
    ELSE IF m.CurrentIP = m.Config.OriginalIP THEN m.Config.BackupIP
    ELSE m.Config.OriginalIP

FiredOn(i) == last'.op = "ScheduleFire" /\ last'.m = i

\* C8: a schedule fire changes nothing in the monitor and dispatches nothing
\* when status is Down, when the target equals currentIP, and when the target
\* is empty.
C8_ScheduleNoOp ==
    [][\A i \in Inst :
          (/\ FiredOn(i)
           /\ \/ mon[i].Status = StatusDown
              \/ ExpectedTarget(mon[i]) = mon[i].CurrentIP
              \/ ExpectedTarget(mon[i]) = "")
          => /\ mon'[i] = mon[i]
             /\ emitted' = <<>>]_vars

\* C8 witness: the timer fired during a failover of a toggling monitor whose
\* target (the primary) differs from currentIP, and nothing moved.
C8_Witness ==
    \E i \in Inst :
        /\ last.op = "ScheduleFire" /\ last.m = i
        /\ mon[i].Status = StatusDown
        /\ mon[i].CurrentIP = "B"
        /\ mon[i].Config.ScheduleSwitchIP = ""
        /\ mon[i].SuccCount = 1
        /\ emitted = <<>>

\* ---------------------------------------------------------------- C9
\* C9: a schedule fire with status Normal and a non-empty target different
\* from currentIP sets currentIP to the target, resets failCount and
\* succCount, leaves status and the backup counters alone and dispatches
\* exactly one OnScheduledSwitch(previous currentIP, target); the target is
\* the configured switch-to IP when one is set.
C9_ScheduleSwitches ==
    [][\A i \in Inst :
          LET t == ExpectedTarget(mon[i])
          IN (/\ FiredOn(i)
              /\ mon[i].Status = StatusNormal
              /\ t # ""
              /\ t # mon[i].CurrentIP)
             => /\ mon'[i] = [mon[i] EXCEPT !.CurrentIP = t,
                                            !.FailCount = 0,
                                            !.SuccCount = 0]
                /\ emitted' = <<SchedEvt(i, mon[i].CurrentIP, t)>>
                /\ (mon[i].Config.ScheduleSwitchIP # ""
                      => mon'[i].CurrentIP = mon[i].Config.ScheduleSwitchIP)]_vars

\* C9 witness: a switch to the explicit IP after one counted failure, the
\* stale backup flag of an earlier failover still set.
C9_Witness ==
    \E i \in Inst :
        /\ last.op = "ScheduleFire" /\ last.m = i
        /\ emitted = <<SchedEvt(i, "P", "X")>>
        /\ mon[i].Status = StatusNormal
        /\ mon[i].CurrentIP = "X"
        /\ mon[i].FailCount = 0
        /\ obs[i].failRun = 1
        /\ mon[i].BackupDown

\* ---------------------------------------------------------------- C10
\* A monitor that toggles: no explicit switch-to IP, distinct non-empty IPs.
Toggles(cfg) ==
    /\ cfg.ScheduleSwitchIP = ""
    /\ cfg.OriginalIP # "" /\ cfg.BackupIP # ""
    /\ cfg.OriginalIP # cfg.BackupIP

BackupProbedOn(i) == last'.op = "BackupProbe" /\ last'.m = i

\* C11: for one Monitor the watchdog dispatches OnIPDown(backup IP, "backup")
\* only from a failing backup probe, exactly once, and only when no such
\* dispatch happened since the last successful backup probe; a successful
\* backup probe leaves BackupDown = FALSE, BackupFailCount = 0 and dispatches
\* nothing.
C11_BackupAlertOncePerEpisode ==
    [][\A i \in Inst :
        /\ CountDown(emitted', i, "backup") > 0 =>
             /\ BackupProbedOn(i)
             /\ ~last'.success
             /\ emitted' = <<IPDownEvt(i, mon[i].Config.BackupIP, "backup")>>
             /\ ~obs[i].alerted
        /\ (BackupProbedOn(i) /\ last'.success) =>
             /\ ~mon'[i].BackupDown
             /\ mon'[i].BackupFailCount = 0
             /\ emitted' = <<>>]_vars

\* A failing backup probe that reaches the threshold again after the alert
\* of the same episode and dispatches nothing.
C11_Witness ==
    \E i \in Inst :
        /\ alloc[i]
        /\ last.op = "BackupProbe" /\ last.m = i /\ ~last.success
        /\ obs[i].alerted
        /\ mon[i].BackupDown
        /\ mon[i].BackupFailCount >= BackupThreshold(mon[i].Config)
        /\ emitted = <<>>

\* C12 as stated: whenever a Monitor's status leaves Down, BackupFailCount is
\* 0 and BackupDown is FALSE afterwards.
C12_AsStated ==
    [][\A i \in Inst :
        WentNormal(i) =>
            /\ mon'[i].BackupFailCount = 0
            /\ ~mon'[i].BackupDown]_vars

\* C13 as stated: for a ping Monitor with a backup IP, in every failover
\* period in which the backup probe has failed on FailureThreshold check
\* cycles in a row, OnIPDown with role "backup" has been dispatched in that
\* period.
C13_AsStated ==
    \A i \in Inst :
        (/\ alloc[i]
         /\ mon[i].Status = StatusDown
         /\ mon[i].Config.CheckType = "ping"
         /\ mon[i].Config.BackupIP # ""
         /\ mon[i].Config.FailureThreshold >= 1
         /\ obs[i].bkFailRun >= mon[i].Config.FailureThreshold)
        => obs[i].periodAlert

\* ---------------------------------------------------------------- C14
\* C14: StartMonitor(cfg) for a registered id, whatever the state of the
\* Monitor registered under it, cancels that Monitor's context and leaves
\* the id registered to a different, fresh Monitor: Normal, on cfg's primary
\* IP, all counters 0 and BackupDown FALSE.
C14_ReplaceStartsFresh ==
    [][(last'.op = "StartMonitor" /\ cancels[last'.id] # NoInst) =>
          LET id == last'.id
              old == cancels[id]
              new == Monitors'[id]
          IN /\ ctxDone'[old]
             /\ new # old /\ new # NoInst /\ new = last'.m
             /\ cancels'[id] = new
             /\ mon'[new].Config \in pool.cfgs
             /\ mon'[new].Config.ID = id
             /\ mon'[new].Status = StatusNormal
             /\ mon'[new].CurrentIP = mon'[new].Config.OriginalIP
             /\ mon'[new].FailCount = 0
             /\ mon'[new].SuccCount = 0
             /\ mon'[new].BackupFailCount = 0
             /\ ~mon'[new].BackupDown
             /\ mon'[old] = mon[old]]_vars

\* A Monitor that was Down with a counted success has just been replaced.
C14_Witness ==
    \E old \in Inst :
        /\ last.op = "StartMonitor"
        /\ old # last.m
        /\ alloc[old] /\ ctxDone[old]
        /\ mon[old].Config.ID = last.id
        /\ mon[old].Status = StatusDown
        /\ mon[old].SuccCount > 0
        /\ Monitors[last.id] = last.m
        /\ mon[last.m].Status = StatusNormal

\* ---------------------------------------------------------------- C15
\* The steps at which an operation on the registry reads or writes the maps
\* (the second part of StartMonitor is the replacement itself).
RegistrySteps ==
    {"StartBegin", "StopMonitor", "ForceRestoreLookup", "ForceRestoreMiss",
     "GetStatusBegin", "GetStatusRead", "GetStatusEnd"}

\* C15: the registry holds at most one Monitor per id, and every step of a
\* registry operation other than the replacing StartMonitor itself finds each
\* id mapped to one instance in both maps (the old one or the new one) or to
\* none in both: never a Monitor paired with another instance's cancel.
C15_ReplaceAtomic ==
    [][/\ \A id \in Ids :
             Monitors'[id] # NoInst =>
                 /\ alloc'[Monitors'[id]]
                 /\ mon'[Monitors'[id]].Config.ID = id
       /\ last'.op \in RegistrySteps =>
             \A id \in Ids : Monitors[id] = cancels[id]]_vars

\* A replacement is half done (the new cancel function is stored, the old
\* Monitor still registered) while a ForceRestore holds the old Monitor.
C15_Witness ==
    \E id \in Ids :
        /\ emu = "write"
        /\ Monitors[id] # NoInst
        /\ cancels[id] # Monitors[id]
        /\ frM = Monitors[id]

\* ---------------------------------------------------------------- C16
\* C16: StopMonitor on a registered id cancels the context of the instance
\* registered under it and leaves the id in neither map; StopMonitor on an
\* unknown id changes neither map and cancels nothing; while an id is not
\* registered ForceRestore returns ("", false) for it and GetStatus returns
\* no entry for it.
C16_StopRemoves ==
    [][/\ last'.op = "StopMonitor" =>
             LET id == last'.id
                 i == cancels[id]
             IN IF i # NoInst
                THEN /\ ctxDone'[i]
                     /\ Monitors'[id] = NoInst
                     /\ cancels'[id] = NoInst
                     /\ \A o \in Ids \ {id} :
                            /\ Monitors'[o] = Monitors[o]
                            /\ cancels'[o] = cancels[o]
                ELSE UNCHANGED <<Monitors, cancels, ctxDone>>
       /\ (/\ last'.op \in {"ForceRestoreLookup", "ForceRestoreMiss"}
           /\ Monitors[last'.id] = NoInst) =>
             /\ ret' = [fromIP |-> "", ok |-> FALSE]
             /\ frM' = NoInst
       /\ last'.op = "GetStatusEnd" =>
             \A k \in 1..Len(gs.res) : Monitors[gs.res[k].id] # NoInst]_vars

\* ForceRestore has just returned ok = false for an id whose stopped
\* instance is still winding down.
C16_Witness ==
    \E i \in Inst :
        /\ last.op = "ForceRestoreMiss"
        /\ ret = [fromIP |-> "", ok |-> FALSE]
        /\ Monitors[last.id] = NoInst
        /\ alloc[i] /\ ctxDone[i]
        /\ mon[i].Config.ID = last.id
        /\ mon[i].Status = StatusDown

\* ---------------------------------------------------------------- C17
\* C17: the registry does not change while GetStatus runs; each iteration
\* appends one entry whose id, status, current_ip, fail_count, succ_count
\* and check_type are the fields the visited Monitor holds at that step; the
\* returned list has exactly one entry per registered id and none for any
\* other id.
C17_StatusSnapshot ==
    [][/\ gs.pc = "reading" => Monitors' = Monitors
       /\ last'.op = "GetStatusRead" =>
             LET id == last'.id
                 m == mon[Monitors[id]]
                 n == Len(gs'.res)
                 e == gs'.res[n]
             IN /\ Monitors[id] # NoInst
                /\ n = Len(gs.res) + 1
                /\ SubSeq(gs'.res, 1, n - 1) = gs.res
                /\ e.id = id /\ m.Config.ID = id
                /\ e.status = m.Status
                /\ e.current_ip = m.CurrentIP
                /\ e.fail_count = m.FailCount
                /\ e.succ_count = m.SuccCount
                /\ e.check_type = m.Config.CheckType
                /\ mon' = mon
       /\ last'.op = "GetStatusEnd" =>
             \A id \in Ids :
                 Cardinality({k \in 1..Len(gs.res) : gs.res[k].id = id})
                     = IF Monitors[id] # NoInst THEN 1 ELSE 0]_vars

\* GetStatus has visited both registered Monitors and the first one has
\* changed status and counters since its entry was taken.
C17_Witness ==
    /\ gs.pc = "reading"
    /\ Len(gs.res) = 2
    /\ gs.todo = {}
    /\ LET e == gs.res[1]
           m == mon[Monitors[e.id]]
       IN /\ e.status = StatusNormal
          /\ m.Status = StatusDown

\* ---------------------------------------------------------------- C18
\* C18: a step of StopMonitor(id) or of a StartMonitor that replaces the
\* instance registered under id cancels the context of that instance and
\* changes the context of no other Monitor that exists; cancelling the root
\* context leaves the context of every existing Monitor done, and a context
\* derived from the root afterwards is done from the start.
C18_CancelExactlyOwn ==
    [][/\ last'.op \in {"StopMonitor", "StartBegin"} =>
             LET old == cancels[last'.id]
             IN /\ old # NoInst => ctxDone'[old]
                /\ \A j \in Inst :
                      (alloc[j] /\ j # old) => ctxDone'[j] = ctxDone[j]
       /\ last'.op = "RootCancel" =>
             \A j \in Inst : alloc[j] => ctxDone'[j]
       /\ rootDone' => \A j \in Inst : alloc'[j] => ctxDone'[j]]_vars

\* One of two running monitors has just been stopped: its context is done,
\* the other is still registered with its context live and its loop waiting.
C18_Witness ==
    \E old, other \in Inst :
        /\ last.op = "StopMonitor" /\ last.m = old
        /\ other # old
        /\ alloc[old] /\ alloc[other]
        /\ mon[old].Config.ID = last.id
        /\ Monitors[last.id] = NoInst
        /\ Monitors[mon[other].Config.ID] = other
        /\ ctxDone[old] /\ ~ctxDone[other]
        /\ runPc[other] = "wait"

\* ---------------------------------------------------------------- C19
\* C19 as stated: once the context of an instance is cancelled and the
\* instance is no longer the one registered under its id, no step of its
\* check loop or schedule loop changes its status or currentIP or dispatches
\* a callback for it.
C19_AsStated ==
    [][\A i \in Inst :
        (/\ alloc[i] /\ ctxDone[i]
         /\ Monitors[mon[i].Config.ID] # i
         /\ last'.m = i
         /\ last'.op \in {"Tick", "BackupProbe", "ScheduleFire"}) =>
            /\ mon'[i].Status = mon[i].Status
            /\ mon'[i].CurrentIP = mon[i].CurrentIP
            /\ \A k \in 1..Len(emitted') : emitted'[k].m # i]_vars

\* ---------------------------------------------------------------- C20
\* C20: within one Monitor a check tick (probe and state update) starts only
\* when no tick of that Monitor is in progress; the watchdog of a tick runs
\* only while that tick is in progress and ends it, either at its early
\* return or after its backup probe; the loop leaves only between ticks.
C20_TicksSequential ==
    [][\A i \in Inst :
        /\ TickedOn(i) => (~obs[i].pending /\ obs'[i].pending)
        /\ (last'.op = "BackupRead" /\ last'.m = i) =>
              /\ obs[i].pending
              /\ obs'[i].pending = shouldCheck(mon[i])
        /\ BackupProbedOn(i) => (obs[i].pending /\ ~obs'[i].pending)
        /\ (last'.op = "RunExit" /\ last'.m = i) => ~obs[i].pending]_vars

\* The watchdog of a later tick is about to probe the backup while the
\* Monitor's context is already cancelled: the tick still runs to its end.
C20_Witness ==
    \E i \in Inst :
        /\ alloc[i]
        /\ obs[i].pending
        /\ runPc[i] = "backupProbe"
        /\ mon[i].BackupFailCount > 0
        /\ ctxDone[i]

\* ---------------------------------------------------------------- C21
LoopsReturned(i) ==
    runPc[i] = "done" /\ schedPc[i] \in {"done", "none"}

\* C21: neither loop of a Monitor returns while its context is not
\* cancelled, and once the context is cancelled both loops have returned at
\* some later moment, also when the tickers keep firing.
C21_LoopsEndOnCancel ==
    /\ [][\A i \in Inst :
            /\ (runPc[i] # "done" /\ runPc'[i] = "done") => ctxDone[i]
            /\ (schedPc[i] # "done" /\ schedPc'[i] = "done") => ctxDone[i]]_vars
    /\ \A i \in Inst : (alloc[i] /\ ctxDone[i]) ~> LoopsReturned(i)

\* Both loops of a cancelled Monitor have returned, the check loop after a
\* tick it still took when the context was already cancelled.
C21_Witness ==
    \E i \in Inst :
        /\ alloc[i] /\ ctxDone[i]
        /\ runPc[i] = "done" /\ schedPc[i] = "done"
        /\ Monitors[mon[i].Config.ID] # i
        /\ mon[i].Status = StatusDown

\* ---------------------------------------------------------------- C22
\* C22: whatever callbacks of a Monitor have not returned, with no callback
\* goroutine waiting to run every step the engine is at for that Monitor
\* can be taken: the check tick, the watchdog, the schedule fire, the reset
\* of ForceRestore and the visit of GetStatus.
C22_CallbacksDetached ==
    \A i \in Inst :
        (alloc[i] /\ goq = <<>>) =>
            /\ runPc[i] = "wait" =>
                  \A success \in ProbeResults(mon[i].Config) :
                      ENABLED Tick(i, success)
            /\ runPc[i] = "backupRead" => ENABLED BackupRead(i)
            /\ runPc[i] = "backupProbe" => ENABLED BackupProbe(i, "ok")
            /\ schedPc[i] = "wait" => ENABLED ScheduleFire(i)
            /\ frM = i => ENABLED ForceRestoreApply
            /\ (gs.pc = "reading" /\ mon[i].Config.ID \in gs.todo) =>
                  ENABLED GetStatusRead(mon[i].Config.ID)

\* A callback of the monitor never returned, and the monitor has just taken
\* a check tick that failed over again.
C22_Witness ==
    \E i \in Inst :
        /\ alloc[i]
        /\ mon[i].Config.ID \in hung
        /\ last.op = "Tick" /\ last.m = i
        /\ emitted = <<IPDownEvt(i, "P", "original"), SwitchEvt(i, TRUE)>>
        /\ goq = emitted
        /\ mon[i].Status = StatusDown

\* ---------------------------------------------------------------- C23
\* C23: a callback, whether it succeeds, fails or never returns, changes no
\* Monitor and nothing of the registry and starts no further callback, and
\* no step of the engine writes the DNS record: what a transition set stays
\* as it is, and the DNS record is whatever the callbacks made of it.
C23_CallbackOutcomeIgnored ==
    [][/\ last'.op = "GoRun" =>
             /\ mon' = mon
             /\ Monitors' = Monitors /\ cancels' = cancels
             /\ ctxDone' = ctxDone
             /\ runPc' = runPc /\ schedPc' = schedPc
             /\ emitted' = <<>>
             /\ Len(goq') = Len(goq) - 1
       /\ last'.op # "GoRun" => dns' = dns]_vars

\* The OnSwitch(true) callback of the first failover has just failed: the
\* Monitor stays Down on the backup IP while the DNS record was never set.
C23_Witness ==
    \E i \in Inst :
        /\ last.op = "GoRun" /\ last.m = i /\ ~last.success
        /\ ran.evt = SwitchEvt(i, TRUE)
        /\ mon[i].Config.ID \notin hung
        /\ mon[i].Status = StatusDown
        /\ mon[i].CurrentIP = "B"
        /\ dns[mon[i].Config.ID] = ""

\* ---------------------------------------------------------------- C24
\* C24: the callback goroutines that were started and have not run yet can
\* run in any order: each of them, whatever its place among them, is one
\* the next step may run.
C24_AnyOrder ==
    \A k \in 1..Len(goq) : ENABLED GoRun(k, "ok")

\* The OnSwitch(false) of a restore has just run while the OnSwitch(true)
\* of the failover before it, started earlier, has not run yet.
C24_Witness ==
    \E i \in Inst :
        /\ last.op = "GoRun" /\ last.m = i
        /\ ran = [pos |-> 2, evt |-> SwitchEvt(i, FALSE)]
        /\ goq = <<SwitchEvt(i, TRUE)>>

\* The OnSwitch(true) of a failover has just run while the OnIPDown for the
\* primary IP, started just ahead of it in the same tick, has not run yet.
C24_SameTick ==
    \E i \in Inst :
        /\ last.op = "GoRun" /\ last.m = i
        /\ ran = [pos |-> 2, evt |-> SwitchEvt(i, TRUE)]
        /\ goq = <<IPDownEvt(i, "P", "original")>>

\* ---------------------------------------------------------------- C25
\* The steps of the operations on one monitor: check tick with its
\* watchdog, schedule fire, ForceRestore, StartMonitor and StopMonitor.
MonitorSteps ==
    {"Tick", "BackupRead", "BackupProbe", "ScheduleFire",
     "ForceRestoreLookup", "ForceRestoreMiss", "ForceRestore",
     "StartMonitor", "StopMonitor"}

\* C25: a step of an operation on the monitor with one id leaves, for every
\* other id, the registration as it was, and leaves every Monitor object of
\* another id (status, currentIP, counters, backup fields) as it was.
C25_OtherIdsUntouched ==
    [][last'.op \in MonitorSteps =>
          /\ \A id \in Ids \ {last'.id} :
                /\ Monitors'[id] = Monitors[id]
                /\ cancels'[id] = cancels[id]
          /\ \A j \in Inst :
                (alloc[j] /\ mon[j].Config.ID # last'.id) =>
                    /\ alloc'[j]
                    /\ mon'[j] = mon[j]
                    /\ ctxDone'[j] = ctxDone[j]]_vars

\* Monitor a has just been restored by its check tick while monitor b,
\* registered beside it, stays Down.
C25_Witness ==
    /\ last.op = "Tick" /\ last.id = "a" /\ last.success
    /\ Monitors["a"] # NoInst /\ Monitors["b"] # NoInst
    /\ mon[Monitors["a"]].Status = StatusNormal
    /\ mon[Monitors["b"]].Status = StatusDown
    /\ emitted = <<SwitchEvt(Monitors["a"], FALSE)>>

\* ---------------------------------------------------------------- C26
\* C26: FailCount grows only in a step that is a failing probe on a Normal
\* monitor and SuccCount only in a step that is a successful probe on a Down
\* monitor; a successful probe on a Normal monitor leaves both at 0; and in
\* every state at most one of the two counters is non-zero.
C26_CountersGated ==
    /\ [][\A i \in Inst :
            /\ mon'[i].FailCount > mon[i].FailCount =>
                  /\ TickedOn(i) /\ ~last'.success
                  /\ mon[i].Status = StatusNormal
                  /\ mon'[i].FailCount = mon[i].FailCount + 1
            /\ mon'[i].SuccCount > mon[i].SuccCount =>
                  /\ TickedOn(i) /\ last'.success
                  /\ mon[i].Status = StatusDown
                  /\ mon'[i].SuccCount = mon[i].SuccCount + 1
            /\ (TickedOn(i) /\ last'.success
                   /\ mon[i].Status = StatusNormal) =>
                  /\ mon'[i].FailCount = 0
                  /\ mon'[i].SuccCount = 0]_vars
    /\ [](\A i \in Inst : mon[i].FailCount = 0 \/ mon[i].SuccCount = 0)

\* A second failing probe in a row on a Normal monitor with threshold 3 has
\* just been counted: FailCount is 2 and SuccCount is 0.
C26_Witness ==
    \E i \in Inst :
        /\ alloc[i] /\ mon[i].Config = CfgToggle
        /\ last.op = "Tick" /\ last.m = i /\ ~last.success
        /\ mon[i].Status = StatusNormal
        /\ mon[i].FailCount = 2 /\ mon[i].SuccCount = 0
        /\ obs[i].failRun = 2

\* The other counter at work: a success counted while Down.
C26_SuccCounted ==
    \E i \in Inst :
        /\ alloc[i] /\ mon[i].Status = StatusDown
        /\ mon[i].SuccCount = 1 /\ mon[i].FailCount = 0
        /\ last.op = "Tick" /\ last.m = i /\ last.success

\* ---------------------------------------------------------------- C27
\* C27: a monitor whose primary and backup IPs differ and whose schedule
\* loop is never started (scheduling disabled) has, in every state,
\* CurrentIP = OriginalIP exactly when Status = Normal.
C27_CurrentIPTracksStatus ==
    \A i \in Inst :
        (/\ alloc[i]
         /\ ~schedRuns(mon[i].Config)
         /\ mon[i].Config.OriginalIP # mon[i].Config.BackupIP) =>
            (mon[i].CurrentIP = mon[i].Config.OriginalIP
                <=> mon[i].Status = StatusNormal)

\* ForceRestore has just ended a failover of such a monitor: it found
\* CurrentIP on the backup and left the monitor Normal on the primary.
C27_Witness ==
    \E i \in Inst :
        /\ alloc[i] /\ mon[i].Config = CfgPlain
        /\ last.op = "ForceRestore" /\ last.m = i
        /\ ret = [fromIP |-> "B", ok |-> TRUE]
        /\ mon[i].Status = StatusNormal
        /\ mon[i].CurrentIP = "P"

\* ---------------------------------------------------------------- C28
\* C28 as stated: whenever the watchdog changes BackupFailCount or
\* BackupDown or starts OnIPDown(backup), the monitor is Down at that
\* moment, is a ping monitor and has a backup IP; and a watchdog run that
\* finds one of the three conditions false makes no probe and leaves the
\* backup fields as they were.
C28_AsStated ==
    [][\A i \in Inst :
        /\ (/\ BackupProbedOn(i)
            /\ \/ mon'[i].BackupFailCount # mon[i].BackupFailCount
               \/ mon'[i].BackupDown # mon[i].BackupDown
               \/ emitted' # <<>>) =>
                  shouldCheck(mon[i])
        /\ (/\ last'.op = "BackupRead" /\ last'.m = i
            /\ ~shouldCheck(mon[i])) =>
                  /\ runPc'[i] = "wait"
                  /\ mon'[i] = mon[i]]_vars

\* The state the claim excludes: the watchdog has just counted a failed
\* backup probe on a monitor that ForceRestore had already made Normal.
C28_CountedWhileNormal ==
    \E i \in Inst :
        /\ alloc[i]
        /\ last.op = "BackupProbe" /\ last.m = i
        /\ mon[i].Status = StatusNormal
        /\ mon[i].BackupFailCount = 1

\* ---------------------------------------------------------------- C29
\* The watchdog's failure threshold as the claim gives it.
C29_Threshold(cfg) ==
    IF cfg.FailureThreshold <= 0 THEN 3 ELSE cfg.FailureThreshold

\* C29: a failed backup probe counts one more failure; if that count reaches
\* the threshold (FailureThreshold, or 3 when it is not positive) and
\* BackupDown was false, BackupDown becomes true, BackupFailCount becomes 0
\* and exactly one OnIPDown(BackupIP, "backup") is started; otherwise
\* BackupFailCount is one more than before, BackupDown is unchanged and
\* nothing is started.
C29_BackupFailureCounted ==
    [][\A i \in Inst :
        BackupProbe(i, "fail") =>
            IF /\ mon[i].BackupFailCount + 1 >= C29_Threshold(mon[i].Config)
               /\ ~mon[i].BackupDown
            THEN /\ mon'[i].BackupDown
                 /\ mon'[i].BackupFailCount = 0
                 /\ emitted' =
                      <<IPDownEvt(i, mon[i].Config.BackupIP, "backup")>>
            ELSE /\ mon'[i].BackupDown = mon[i].BackupDown
                 /\ mon'[i].BackupFailCount = mon[i].BackupFailCount + 1
                 /\ emitted' = <<>>]_vars

\* The third failed backup probe in a row of a monitor without a configured
\* failure threshold has just raised the alert.
C29_Witness ==
    \E i \in Inst :
        /\ alloc[i] /\ mon[i].Config = CfgNoThr
        /\ last.op = "BackupProbe" /\ last.m = i /\ ~last.success
        /\ obs[i].bkFailRun = 3
        /\ mon[i].BackupDown /\ mon[i].BackupFailCount = 0
        /\ emitted = <<IPDownEvt(i, "B", "backup")>>

\* The other branch: a failure below the threshold has been counted only.
C29_CountedOnly ==
    \E i \in Inst :
        /\ alloc[i] /\ mon[i].Config = CfgNoThr
        /\ last.op = "BackupProbe" /\ last.m = i /\ ~last.success
        /\ ~mon[i].BackupDown /\ mon[i].BackupFailCount = 2
        /\ emitted = <<>>

\* ---------------------------------------------------------------- C30
WatchdogReadOn(i) == last'.op = "BackupRead" /\ last'.m = i

\* C30 as stated: the watchdog runs after the tick's state update and
\* evaluates the status that update produced: after a failover it goes on
\* to probe the backup, after a restore it does not.
C30_AsStated ==
    [][\A i \in Inst :
        WatchdogReadOn(i) =>
            /\ obs[i].pending
            /\ CanWatch(mon[i].Config) =>
                  /\ mon[i].Status = obs[i].handled
                  /\ obs[i].cycle = "failover" => runPc'[i] = "backupProbe"
                  /\ obs[i].cycle = "restore" => runPc'[i] = "wait"]_vars

\* C30, amended: the watchdog runs after the tick's state update.  On a ping
\* monitor with a backup IP it evaluates the status it finds at its own
\* read, which is the status left by that update unless a ForceRestore has
\* taken the Monitor in between and made it Normal: after a failover it goes
\* on to probe the backup exactly when no ForceRestore came in between, and
\* after a restore it never probes.  On any other monitor it never probes.
C30_WatchdogSeesCurrentStatus ==
    [][\A i \in Inst :
        WatchdogReadOn(i) =>
            /\ obs[i].pending
            /\ CanWatch(mon[i].Config) =>
                  /\ mon[i].Status = IF obs[i].overridden THEN StatusNormal
                                     ELSE obs[i].handled
                  /\ obs[i].cycle = "failover" =>
                        (runPc'[i] = "backupProbe" <=> ~obs[i].overridden)
                  /\ obs[i].cycle = "restore" => runPc'[i] = "wait"
            /\ ~CanWatch(mon[i].Config) => runPc'[i] = "wait"]_vars

\* The watchdog of a failover cycle has just returned without probing the
\* backup: ForceRestore made the monitor Normal before it read the status.
C30_Witness ==
    \E i \in Inst :
        /\ alloc[i] /\ CanWatch(mon[i].Config)
        /\ last.op = "BackupRead" /\ last.m = i
        /\ obs[i].skipped
        /\ mon[i].Status = StatusNormal
        /\ runPc[i] = "wait"

\* The undisturbed case: the backup is probed in the failover cycle itself.
C30_ProbedInFailoverCycle ==
    \E i \in Inst :
        /\ alloc[i] /\ mon[i].Config = CfgSwitchIP
        /\ last.op = "BackupRead" /\ last.m = i
        /\ runPc[i] = "backupProbe"
        /\ obs[i].failRun = 2 /\ ~obs[i].skipped

\* ---------------------------------------------------------------- C31
\* One result fed once to the state machine: a failure moves only what
\* handleFailure moves and a success only what handleSuccess moves, by one
\* count or one transition, and the watchdog of the tick is next.
FedOnce(i) ==
    /\ runPc[i] = "wait" /\ runPc'[i] = "backupRead"
    /\ mon'[i].BackupFailCount = mon[i].BackupFailCount
    /\ mon'[i].BackupDown = mon[i].BackupDown
    /\ IF last'.success
       THEN /\ mon'[i].SuccCount \in {0, mon[i].SuccCount + 1}
            /\ mon'[i].FailCount = 0
            /\ mon'[i].Status # mon[i].Status => WentNormal(i)
       ELSE /\ mon'[i].FailCount \in {0, mon[i].FailCount + 1}
            /\ mon'[i].SuccCount = 0
            /\ mon'[i].Status # mon[i].Status => WentDown(i)

\* C31 as stated: a check tick runs one probe, the HTTP GET for type http
\* or https, the TCP connect for type tcp and the ping for type ping or an
\* unset type, and feeds its result to the state machine once.
C31_AsStated ==
    [][\A i \in Inst :
        TickedOn(i) =>
            /\ mon[i].Config.CheckType \in {"http", "https"} =>
                  last'.probe = "http"
            /\ mon[i].Config.CheckType = "tcp" => last'.probe = "tcp"
            /\ mon[i].Config.CheckType \in {"ping", ""} =>
                  last'.probe = "ping"
            /\ FedOnce(i)]_vars

\* C31, amended: a check tick runs one probe, the HTTP GET for type http or
\* https, the TCP connect for type tcping and the ping for every other type
\* (ping, unset, and tcp among them), and feeds its result to the state
\* machine once.
C31_OneProbePerTick ==
    [][\A i \in Inst :
        TickedOn(i) =>
            /\ last'.probe =
                  IF mon[i].Config.CheckType \in {"http", "https"}
                  THEN "http"
                  ELSE IF mon[i].Config.CheckType = "tcping" THEN "tcp"
                  ELSE "ping"
            /\ FedOnce(i)]_vars

\* A monitor of type tcp has just been probed, with a ping, and the failure
\* has failed it over.
C31_Witness ==
    \E i \in Inst :
        /\ alloc[i] /\ mon[i].Config = CfgTcp
        /\ last.op = "Tick" /\ last.m = i /\ ~last.success
        /\ last.probe = "ping"
        /\ mon[i].Status = StatusDown
        /\ runPc[i] = "backupRead"

\* The other probes at work: TCP connect for tcping, HTTP GET for https.
C31_TcpingProbed ==
    \E i \in Inst :
        /\ alloc[i] /\ mon[i].Config.CheckType = "tcping"
        /\ last.op = "Tick" /\ last.m = i /\ last.probe = "tcp"

C31_HttpsProbed ==
    \E i \in Inst :
        /\ alloc[i] /\ mon[i].Config = CfgHttps
        /\ last.op = "Tick" /\ last.m = i /\ last.probe = "http"

\* ---------------------------------------------------------------- C32
\* C32 as stated: a probe whose prober cannot be set up counts as a failed
\* probe.  The primary check then runs the failure handling (FailCount one
\* more, or the failover, while Normal; SuccCount 0 while Down), and the
\* watchdog counts one more backup failure or, at the threshold and with
\* BackupDown false, raises the backup-down alert.
C32_AsStated ==
    [][\A i \in Inst :
        /\ (TickedOn(i) /\ ~last'.success) =>
              /\ mon[i].Status = StatusNormal =>
                    \/ mon'[i].FailCount = mon[i].FailCount + 1
                    \/ WentDown(i)
              /\ mon[i].Status = StatusDown => mon'[i].SuccCount = 0
        /\ BackupProbe(i, "setupErr") =>
              IF /\ mon[i].BackupFailCount + 1 >=
                         C29_Threshold(mon[i].Config)
                 /\ ~mon[i].BackupDown
              THEN /\ mon'[i].BackupDown
                   /\ emitted' =
                        <<IPDownEvt(i, mon[i].Config.BackupIP, "backup")>>
              ELSE mon'[i].BackupFailCount =
                        mon[i].BackupFailCount + 1]_vars

\* ---------------------------------------------------------------- C33
\* The check loop of Monitor i may have a probe running: the primary probe
\* runs before the state update of the tick (the loop is at "wait" until
\* the result is applied), the backup probe between the watchdog's read and
\* its write.
MayBeProbing(i) == alloc[i] /\ runPc[i] \in {"wait", "backupProbe"}

\* C33: while a probe of one monitor may be running, no lock is held for
\* it: the check tick and schedule fire of every other monitor can be
\* taken, and so can each step of GetStatus, ForceRestore, StartMonitor and
\* StopMonitor on any id, its own included, that does not wait for another
\* of these operations.
C33_ProbeBlocksOnlyOwnLoop ==
    \A i \in Inst :
        MayBeProbing(i) =>
            /\ \A j \in Inst \ {i} :
                  alloc[j] =>
                      /\ runPc[j] = "wait" =>
                            \A success \in ProbeResults(mon[j].Config) :
                                ENABLED Tick(j, success)
                      /\ schedPc[j] = "wait" => ENABLED ScheduleFire(j)
            /\ frM # NoInst => ENABLED ForceRestoreApply
            /\ gs.pc = "reading" =>
                  /\ \A id \in gs.todo : ENABLED GetStatusRead(id)
                  /\ gs.todo = {} => ENABLED GetStatusEnd
            /\ emu = "write" => ENABLED StartFinish
            /\ emu = "free" =>
                  /\ \A id \in Ids : ENABLED StopMonitor(id)
                  /\ gs.pc = "idle" => ENABLED GetStatusBegin
                  /\ frM = NoInst =>
                        \A id \in Ids : ENABLED ForceRestoreLookup(id)
                  /\ FreeSlots # {} =>
                        \A cfg \in pool.cfgs : ENABLED StartBegin(cfg)

\* ForceRestore on the monitor's own id has just completed while the
\* monitor's backup probe is still running.
C33_Witness ==
    \E i \in Inst :
        /\ alloc[i] /\ runPc[i] = "backupProbe"
        /\ last.op = "ForceRestore" /\ last.m = i
        /\ ret = [fromIP |-> "B", ok |-> TRUE]
        /\ mon[i].Status = StatusNormal

\* ---------------------------------------------------------------- C34
\* A holder of the engine lock is GetStatus (read) or StartMonitor (write).
EngineHeld == emu # "free"

\* C34: no operation is ever stuck.  The holder of the engine lock can
\* always take its next step (GetStatus its visit of each Monitor and its
\* return, also while a writer waits; StartMonitor its second half), so the
\* lock is released; every step that takes only a monitor lock (check tick,
\* watchdog, schedule fire, reset of ForceRestore) can be taken whatever
\* the state of the engine lock; and with the engine lock free every caller
\* gets it.
C34_DeadlockFree ==
    /\ emu \in {"read", "readW"} =>
          /\ gs.pc = "reading"
          /\ \A id \in gs.todo : ENABLED GetStatusRead(id)
          /\ gs.todo = {} => ENABLED GetStatusEnd
    /\ emu = "write" => ENABLED StartFinish
    /\ frM # NoInst => ENABLED ForceRestoreApply
    /\ \A i \in Inst :
          alloc[i] =>
              /\ runPc[i] = "wait" =>
                    \A success \in ProbeResults(mon[i].Config) :
                        ENABLED Tick(i, success)
              /\ runPc[i] = "backupRead" => ENABLED BackupRead(i)
              /\ runPc[i] = "backupProbe" =>
                    ENABLED BackupProbe(i, "setupErr")
              /\ schedPc[i] = "wait" => ENABLED ScheduleFire(i)
    /\ ~EngineHeld =>
          /\ \A id \in Ids : ENABLED StopMonitor(id)
          /\ gs.pc = "idle" /\ ENABLED GetStatusBegin
          /\ frM = NoInst => \A id \in Ids : ENABLED ForceRestoreLookup(id)
          /\ FreeSlots # {} =>
                \A cfg \in pool.cfgs : ENABLED StartBegin(cfg)

\* GetStatus has just visited a Monitor while a writer was waiting for the
\* engine lock and a ForceRestore on the same Monitor had done its lookup.
C34_Witness ==
    \E i \in Inst :
        /\ emu = "readW"
        /\ last.op = "GetStatusRead" /\ last.m = i
        /\ frM = i
        /\ gs.todo = {}

\* ---------------------------------------------------------------- C35
\* C35: a Down monitor is on its backup IP in every state, with a schedule
\* and an explicit switch-to IP too; a schedule fire on a Down monitor
\* leaves CurrentIP alone and every step into Down sets it to BackupIP.
C35_DownIsOnBackup ==
    /\ [](\A i \in Inst :
            (alloc[i] /\ mon[i].Status = StatusDown) =>
                mon[i].CurrentIP = mon[i].Config.BackupIP)
    /\ [][\A i \in Inst :
            /\ (last'.op = "ScheduleFire" /\ last'.m = i
                   /\ mon[i].Status = StatusDown) =>
                  mon'[i].CurrentIP = mon[i].CurrentIP
            /\ (alloc[i] /\ mon[i].Status # StatusDown
                   /\ mon'[i].Status = StatusDown) =>
                  mon'[i].CurrentIP = mon'[i].Config.BackupIP]_vars

\* The schedule has just fired on a Down monitor with an explicit switch-to
\* IP: the monitor stays on its backup IP.
C35_Witness ==
    \E i \in Inst :
        /\ alloc[i] /\ mon[i].Config = CfgSwitchIP
        /\ last.op = "ScheduleFire" /\ last.m = i
        /\ mon[i].Status = StatusDown
        /\ mon[i].CurrentIP = "B"
        /\ emitted = <<>>

\* ---------------------------------------------------------------- C36
\* C36: for a monitor whose two thresholds are at least 1, every state
\* between operations has 0 <= FailCount < FailureThreshold and
\* 0 <= SuccCount < SuccessThreshold, FailCount = 0 while Down and
\* SuccCount = 0 while Normal.
C36_CountersInRange ==
    \A i \in Inst :
        (/\ alloc[i]
         /\ mon[i].Config.FailureThreshold >= 1
         /\ mon[i].Config.SuccessThreshold >= 1) =>
            /\ 0 <= mon[i].FailCount
            /\ mon[i].FailCount < mon[i].Config.FailureThreshold
            /\ 0 <= mon[i].SuccCount
            /\ mon[i].SuccCount < mon[i].Config.SuccessThreshold
            /\ mon[i].Status = StatusDown => mon[i].FailCount = 0
            /\ mon[i].Status = StatusNormal => mon[i].SuccCount = 0

\* A Down monitor with success threshold 2 has just counted its first
\* successful probe: the count stands one below the threshold.
C36_Witness ==
    \E i \in Inst :
        /\ alloc[i] /\ mon[i].Config = CfgToggle
        /\ last.op = "Tick" /\ last.m = i /\ last.success
        /\ mon[i].Status = StatusDown
        /\ mon[i].SuccCount = 1
        /\ mon[i].FailCount = 0

\* ---------------------------------------------------------------- C37
\* C37: the two registry maps have the same key set and the cancel
\* function registered under an id cancels the context of the Monitor
\* registered under that id, in every state in which no StartMonitor is
\* inside its critical section; inside it (e.mu write-held) the maps
\* differ at most under the id being registered.
C37_RegistryMapsAgree ==
    /\ \A id \in Ids :
          (emu # "write" \/ id # stCfg.ID) =>
              /\ (Monitors[id] # NoInst) <=> (cancels[id] # NoInst)
              /\ cancels[id] = Monitors[id]
    /\ \A id \in Ids : Monitors[id] # NoInst => alloc[Monitors[id]]

\* A StartMonitor has just replaced a live monitor: both maps hold the new
\* instance under the id and the old instance, cancelled, is in neither.
C37_Witness ==
    \E i, j \in Inst :
        /\ i # j /\ alloc[i] /\ alloc[j]
        /\ last.op = "StartFinish" /\ last.m = i
        /\ emu = "free"
        /\ Monitors[last.id] = i /\ cancels[last.id] = i
        /\ mon[j].Config.ID = last.id
        /\ ctxDone[j] /\ ~ctxDone[i]

\* ---------------------------------------------------------------- C38
\* C38: the primary state machine takes the thresholds as configured: with
\* FailureThreshold <= 0 a failing probe observed while Normal fails over at
\* once, with SuccessThreshold <= 0 a successful probe observed while Down
\* restores at once; the watchdog of the same monitor raises its alert on
\* the third failed backup probe when FailureThreshold <= 0.
C38_PrimaryThresholdsNotDefaulted ==
    [][\A i \in Inst :
        /\ (/\ mon[i].Config.FailureThreshold <= 0
            /\ mon[i].Status = StatusNormal
            /\ Tick(i, FALSE)) =>
               /\ mon'[i].Status = StatusDown
               /\ mon'[i].FailCount = 0
        /\ (/\ mon[i].Config.SuccessThreshold <= 0
            /\ mon[i].Status = StatusDown
            /\ Tick(i, TRUE)) =>
               /\ mon'[i].Status = StatusNormal
               /\ mon'[i].SuccCount = 0
        /\ (/\ mon[i].Config.FailureThreshold <= 0
            /\ ~mon[i].BackupDown
            /\ BackupProbe(i, "fail")) =>
               (mon'[i].BackupDown <=> mon[i].BackupFailCount + 1 >= 3)]_vars

\* A ping monitor with thresholds -1/-1 went Down on its first failing
\* probe; its watchdog has now counted two failed backup probes and has
\* raised no alert.
C38_Witness ==
    \E i \in Inst :
        /\ alloc[i] /\ mon[i].Config = CfgNegThr
        /\ last.op = "BackupProbe" /\ last.m = i /\ ~last.success
        /\ mon[i].Status = StatusDown
        /\ obs[i].failRun = 1
        /\ mon[i].BackupFailCount = 2
        /\ ~mon[i].BackupDown
        /\ emitted = <<>>

\* A monitor with SuccessThreshold <= 0 has just been restored by the first
\* successful probe seen while Down.
C38_RestoredAtOnce ==
    \E i \in Inst :
        /\ alloc[i] /\ mon[i].Config.SuccessThreshold <= 0
        /\ last.op = "Tick" /\ last.m = i /\ last.success
        /\ mon[i].Status = StatusNormal
        /\ obs[i].succRun = 1
        /\ emitted # <<>>

\* ---------------------------------------------------------------- C39
\* C39: ForceRestore(id) for an id that is not registered returns
\* ("", false) and changes no Monitor, no loop and neither registry map;
\* the restore handler then logs the configured backup IP of the id as the
\* from-IP of its event.
C39_UnregisteredRestore ==
    [][\A id \in Ids :
        (ForceRestoreLookup(id) /\ Monitors[id] = NoInst) =>
            /\ ret' = [fromIP |-> "", ok |-> FALSE]
            /\ frM' = NoInst
            /\ emitted' = <<>>
            /\ UNCHANGED <<Monitors, cancels, alloc, mon, ctxDone, runPc, bk,
                           schedPc>>
            /\ \A cfg \in pool.cfgs :
                  cfg.ID = id => restoreFromIP(ret', cfg) = cfg.BackupIP]_vars

\* ForceRestore has just returned for the unregistered id "b" while the
\* monitor of id "a" is in failover; the event of the restore request would
\* carry the backup IP configured for "b".
C39_Witness ==
    \E i \in Inst :
        /\ last.op = "ForceRestoreMiss" /\ last.id = "b"
        /\ ret = [fromIP |-> "", ok |-> FALSE]
        /\ Monitors["b"] = NoInst /\ cancels["b"] = NoInst
        /\ CfgOther \in pool.cfgs
        /\ restoreFromIP(ret, CfgOther) = "C"
        /\ Monitors["a"] = i
        /\ mon[i].Status = StatusDown

====
